---- MODULE Spec2Model ----
(***************************************************************************)
(* A model of improver/utilities/cube_manipulation.py.                     *)
(*                                                                         *)
(* A cube is a record                                                      *)
(*   attributes   : a function from attribute names to values              *)
(*   cell_methods : the cube's cell methods (compared as a set: the tuple  *)
(*                  order that list(set(..)) leaves is not modelled)       *)
(*   var_name     : the cube's var_name, "None" when unset                 *)
(*   coords       : a function from coordinate names to coordinates        *)
(*   dim_coords   : the names of the dimension coordinates, one per        *)
(*                  modelled axis (<<>> for a cube without such an axis)   *)
(*   data         : the payload, one block per point of the leading axis   *)
(*                  (a single block for a cube without one); a block stands*)
(*                  for the sub-array over the axes that are not modelled  *)
(* and a coordinate is a record                                            *)
(*   var_name, points, bounds (<<>> when the coordinate has no bounds,     *)
(*   else one <<lower, upper>> per point), dims (<<>> scalar, <<0>> along  *)
(*   the leading axis).                                                    *)
(* Coordinate values are integers (as the int64 time coordinates are).     *)
(***************************************************************************)
EXTENDS Integers, Sequences, FiniteSets, TLC

VARIABLES
    cubes_in,   \* the caller's cubes, which an operation may modify in place
    call,       \* the operation called last and its arguments
    result,     \* what that call returned, or the error it raised
    inner,      \* the result of merging the first two cubes (associativity)
    nested      \* the result of merging <<inner, third cube>>

vars == <<cubes_in, call, result, inner, nested>>

None == "None"

Abs(x) == IF x < 0 THEN -x ELSE x

Range(s) == {s[i] : i \in DOMAIN s}

SetMin(S) == CHOOSE x \in S : \A y \in S : x <= y

SetMax(S) == CHOOSE x \in S : \A y \in S : x >= y

NoCube ==
    [attributes |-> <<>>, cell_methods |-> {}, var_name |-> None,
     coords |-> <<>>, dim_coords |-> <<>>, data |-> <<>>]

Ok(cube) == [status |-> "ok", value |-> cube]

Raise(error) == [status |-> error, value |-> NoCube]

Unset == [status |-> "unset", value |-> NoCube]

(***************************************************************************)
(* MergeCubes                                                              *)
(***************************************************************************)

\* MergeCubes.__init__: the attributes to remove silently if unmatched.
\* process never reads it.
silent_attributes == {"history", "title", "mosg__grid_version"}

\* iris.util.equalise_attributes: every cube keeps the attributes that all
\* cubes of the list hold with the same value.
common_attributes(cubelist) ==
    {k \in DOMAIN cubelist[1].attributes :
        \A i \in DOMAIN cubelist :
            /\ k \in DOMAIN cubelist[i].attributes
            /\ cubelist[i].attributes[k] = cubelist[1].attributes[k]}

equalise_attributes_first(cubelist) ==
    [i \in DOMAIN cubelist |->
        [cubelist[i] EXCEPT !.attributes = cubelist[1].attributes]]

equalise_attributes(cubelist) ==
    LET common == common_attributes(cubelist)
    IN  [i \in DOMAIN cubelist |->
            [cubelist[i] EXCEPT !.attributes =
                [k \in common |-> cubelist[i].attributes[k]]]]

\* strip_var_names: var_name is removed from each cube and from each of its
\* coordinates, but a coordinate's var_name "threshold" is kept.
strip_coord(coord) ==
    IF coord.var_name # "threshold" THEN [coord EXCEPT !.var_name = None]
    ELSE coord

strip_var_names(cubes) ==
    [i \in DOMAIN cubes |->
        [cubes[i] EXCEPT
            !.var_name = None,
            !.coords = [n \in DOMAIN cubes[i].coords |->
                            strip_coord(cubes[i].coords[n])]]]

\* MergeCubes._equalise_cell_methods: every cube gets the cell methods that
\* all cubes share.
equalise_cell_methods(cubelist) ==
    LET cell_methods ==
            {m \in cubelist[1].cell_methods :
                \A i \in DOMAIN cubelist : m \in cubelist[i].cell_methods}
    IN  [i \in DOMAIN cubelist |->
            [cubelist[i] EXCEPT !.cell_methods = cell_methods]]

\* cube.slices_over(name): one cube per point of the axis the coordinate
\* runs along; the cube itself when the coordinate is scalar.
slice_at(cube, i) ==
    [cube EXCEPT
        !.coords = [n \in DOMAIN cube.coords |->
            IF cube.coords[n].dims = <<>> THEN cube.coords[n]
            ELSE [cube.coords[n] EXCEPT
                    !.points = <<@[i]>>,
                    !.bounds = IF @ = <<>> THEN <<>> ELSE <<@[i]>>,
                    !.dims = <<>>]],
        !.dim_coords = <<>>,
        !.data = <<@[i]>>]

slices_over_whole(cube, name) == <<cube>>

slices_over(cube, name) ==
    IF cube.coords[name].dims = <<>> THEN <<cube>>
    ELSE [i \in 1..Len(cube.data) |-> slice_at(cube, i)]

\* The cell of a scalar coordinate, as iris orders cells: by point, then by
\* bound.
cell(cube, name) ==
    LET coord == cube.coords[name]
    IN  IF coord.bounds = <<>>
        THEN <<coord.points[1], coord.points[1], coord.points[1]>>
        ELSE <<coord.points[1], coord.bounds[1][1], coord.bounds[1][2]>>

cell_less(a, b) ==
    \/ a[1] < b[1]
    \/ a[1] = b[1] /\ a[2] < b[2]
    \/ a[1] = b[1] /\ a[2] = b[2] /\ a[3] < b[3]

RECURSIVE sorted_indices(_, _, _)
sorted_indices(S, cubelist, name) ==
    IF S = {} THEN <<>>
    ELSE LET first == CHOOSE i \in S : \A j \in S \ {i} :
                        cell_less(cell(cubelist[i], name), cell(cubelist[j], name))
         IN  <<first>> \o sorted_indices(S \ {first}, cubelist, name)

\* What iris compares before it merges two cubes: everything but the values
\* of the coordinates and the payload.
signature(cube) ==
    [attributes |-> cube.attributes, cell_methods |-> cube.cell_methods,
     var_name |-> cube.var_name, dim_coords |-> cube.dim_coords,
     coords |-> [n \in DOMAIN cube.coords |->
                    [var_name |-> cube.coords[n].var_name,
                     bounded |-> cube.coords[n].bounds # <<>>,
                     dims |-> cube.coords[n].dims]]]

differing_coords(cubelist) ==
    {n \in DOMAIN cubelist[1].coords :
        \E i \in DOMAIN cubelist : cubelist[i].coords[n] # cubelist[1].coords[n]}

\* CubeList.merge_cube of cubes without an axis that differ in one scalar
\* coordinate: the coordinate becomes the new leading axis, its cells in
\* ascending order, and a dimension coordinate when its points are strictly
\* monotonic.
merge_along(cubelist, name) ==
    LET n == Len(cubelist)
        order == sorted_indices(1..n, cubelist, name)
        c1 == cubelist[1].coords[name]
        points == [k \in 1..n |-> cubelist[order[k]].coords[name].points[1]]
    IN  [cubelist[1] EXCEPT
            !.coords = [@ EXCEPT ![name] =
                [c1 EXCEPT
                    !.points = points,
                    !.bounds = IF c1.bounds = <<>> THEN <<>>
                               ELSE [k \in 1..n |->
                                        cubelist[order[k]].coords[name].bounds[1]],
                    !.dims = <<0>>]],
            !.dim_coords = IF \A k \in 1..(n - 1) : points[k] < points[k + 1]
                           THEN <<name>> ELSE <<None>>,
            !.data = [k \in 1..n |-> cubelist[order[k]].data[1]]]

\* CubeList.merge_cube of cubes that hold the same axes and differ in one
\* scalar coordinate: the coordinate becomes the new leading axis and the
\* axes the cubes held move one place down; the payload of the result is
\* the sequence of the cubes' payloads.
merge_stack(cubelist, name) ==
    LET n == Len(cubelist)
        order == sorted_indices(1..n, cubelist, name)
        c1 == cubelist[1].coords[name]
        points == [k \in 1..n |-> cubelist[order[k]].coords[name].points[1]]
    IN  [cubelist[1] EXCEPT
            !.coords = [m \in DOMAIN cubelist[1].coords |->
                IF m = name
                THEN [c1 EXCEPT
                        !.points = points,
                        !.bounds = IF c1.bounds = <<>> THEN <<>>
                                   ELSE [k \in 1..n |->
                                            cubelist[order[k]].coords[name].bounds[1]],
                        !.dims = <<0>>]
                ELSE [cubelist[1].coords[m] EXCEPT
                        !.dims = [d \in DOMAIN @ |-> @[d] + 1]]],
            !.dim_coords = (IF \A k \in 1..(n - 1) : points[k] < points[k + 1]
                            THEN <<name>> ELSE <<None>>) \o @,
            !.data = [k \in 1..n |-> cubelist[order[k]].data]]

\* CubeList.merge_cube.  Cubes that differ in two coordinates at once merge
\* into a cube of two axes: that is not modelled, and the status
\* "NotModelled" marks it.
merge_cube(cubelist) ==
    IF Len(cubelist) = 0 THEN Raise("ValueError")
    ELSE IF Len(cubelist) = 1 THEN Ok(cubelist[1])
    ELSE IF \E i \in DOMAIN cubelist :
                signature(cubelist[i]) # signature(cubelist[1])
    THEN Raise("MergeError")
    ELSE IF \E i, j \in DOMAIN cubelist :
                i # j /\ cubelist[i].coords = cubelist[j].coords
    THEN Raise("DuplicateDataError")
    ELSE IF cubelist[1].dim_coords # <<>>
    THEN IF \E i \in DOMAIN cubelist : \E n \in DOMAIN cubelist[1].coords :
                /\ cubelist[1].coords[n].dims # <<>>
                /\ cubelist[i].coords[n] # cubelist[1].coords[n]
         THEN Raise("MergeError")
         ELSE IF Cardinality(differing_coords(cubelist)) # 1
         THEN Raise("NotModelled")
         ELSE Ok(merge_stack(cubelist,
                             CHOOSE n \in differing_coords(cubelist) : TRUE))
    ELSE IF Cardinality(differing_coords(cubelist)) # 1
    THEN Raise("NotModelled")
    ELSE Ok(merge_along(cubelist, CHOOSE n \in differing_coords(cubelist) : TRUE))


\* np.isclose(a, b) with numpy's default rtol = 1e-5, atol = 1e-8 tests
\* |a - b| <= atol + rtol * |b|.  For integers that is
\* 100000 * |a - b| <= |b|, computed here without the large product.
isclose_rtol_inverse == 100000

isclose_exact(a, b) == a = b

isclose(a, b) == Abs(a - b) <= Abs(b) \div isclose_rtol_inverse

\* np.abs(np.diff(coord.bounds)): the width of each bound interval.
bounds_ranges(coord) ==
    [i \in DOMAIN coord.bounds |-> Abs(coord.bounds[i][2] - coord.bounds[i][1])]

mismatching_bounds_ranges(coord) ==
    LET reference_range == bounds_ranges(coord)[1]
    IN  \E i \in DOMAIN coord.bounds :
            ~isclose(bounds_ranges(coord)[i], reference_range)

\* MergeCubes._check_time_bounds_ranges: TRUE when it raises ValueError.
check_time_bounds_ranges_fails(cube) ==
    \E name \in {"time", "forecast_period"} :
        /\ name \in DOMAIN cube.coords
        /\ cube.coords[name].bounds # <<>>
        /\ Len(cube.coords[name].points) # 1
        /\ mismatching_bounds_ranges(cube.coords[name])

RECURSIVE flatten(_)
flatten(lists) ==
    IF lists = <<>> THEN <<>> ELSE Head(lists) \o flatten(Tail(lists))

\* process, lines 258-270: the working list holds the caller's own cubes
\* when they are neither copied nor sliced (a slice is a new cube).
working_list_is_input_ignoring_copy(slice_over_realization, copy) ==
    ~slice_over_realization

working_list_is_input(slice_over_realization, copy) ==
    ~copy /\ ~slice_over_realization

\* MergeCubes.process: what it returns or raises, and the caller's cubes
\* after the call.
process(cubes, is_cube, check_time_bounds_ranges, slice_over_realization, copy) ==
    IF is_cube THEN [result |-> Ok(cubes[1]), cubes |-> cubes]
    ELSE IF Len(cubes) = 1
    THEN [result |-> IF check_time_bounds_ranges
                        /\ check_time_bounds_ranges_fails(cubes[1])
                     THEN Raise("ValueError") ELSE Ok(cubes[1]),
          cubes |-> cubes]
    ELSE IF Len(cubes) = 0
    THEN [result |-> Raise("IndexError"), cubes |-> cubes]
    ELSE IF slice_over_realization
            /\ \E i \in DOMAIN cubes : "realization" \notin DOMAIN cubes[i].coords
    THEN [result |-> Raise("CoordinateNotFoundError"), cubes |-> cubes]
    ELSE
        LET cubelist0 ==
                IF slice_over_realization
                THEN flatten([i \in DOMAIN cubes |->
                                slices_over(cubes[i], "realization")])
                ELSE cubes
            cubelist ==
                equalise_cell_methods(strip_var_names(equalise_attributes(cubelist0)))
            merged == merge_cube(cubelist)
        IN  [result |->
                IF merged.status = "ok" /\ check_time_bounds_ranges
                   /\ check_time_bounds_ranges_fails(merged.value)
                THEN Raise("ValueError") ELSE merged,
             cubes |->
                IF working_list_is_input(slice_over_realization, copy)
                THEN cubelist ELSE cubes]

(***************************************************************************)
(* expand_bounds                                                           *)
(***************************************************************************)

\* Every value np.min / np.max see: all bound values, lower and upper, of
\* all cubes, or all points when no cube has bounds.
bound_values(cubelist, coord) ==
    UNION {UNION {{cubelist[i].coords[coord].bounds[k][1],
                   cubelist[i].coords[coord].bounds[k][2]} :
                        k \in DOMAIN cubelist[i].coords[coord].bounds} :
           i \in DOMAIN cubelist}

point_values(cubelist, coord) ==
    UNION {Range(cubelist[i].coords[coord].points) : i \in DOMAIN cubelist}

mixture_of_bounds_never(cubelist, coord) == FALSE

\* Lines 598-599: some cube has no bounds on the coordinate, and some has.
mixture_of_bounds(cubelist, coord) ==
    /\ \E i \in DOMAIN cubelist : cubelist[i].coords[coord].bounds = <<>>
    /\ \E i \in DOMAIN cubelist : cubelist[i].coords[coord].bounds # <<>>

expanded_coord_point_low(result_coord, values) ==
    [result_coord EXCEPT
        !.bounds = <<<<SetMin(values), SetMax(values)>>>>,
        !.points = <<SetMin(values)>>]

\* Lines 610-617: the bounds become the one interval from the least to the
\* greatest value, the point the greatest.  The casts to FLOAT_DTYPE leave
\* integer values alone.
expanded_coord(result_coord, values) ==
    [result_coord EXCEPT
        !.bounds = <<<<SetMin(values), SetMax(values)>>>>,
        !.points = <<SetMax(values)>>]

\* expand_bounds: the loop over coord_names, which alters result_cube in
\* place and stops at the first error.
RECURSIVE expand_bounds(_, _, _)
expand_bounds(result_cube, cubelist, coord_names) ==
    IF coord_names = <<>> THEN Ok(result_cube)
    ELSE
        LET coord == Head(coord_names)
            unbounded ==
                \E i \in DOMAIN cubelist : cubelist[i].coords[coord].bounds = <<>>
        IN  IF Len(result_cube.coords[coord].points) # 1
            THEN [status |-> "ValueError", value |-> result_cube]
            ELSE IF mixture_of_bounds(cubelist, coord)
            THEN [status |-> "ValueError", value |-> result_cube]
            ELSE expand_bounds(
                    [result_cube EXCEPT !.coords[coord] =
                        expanded_coord(@,
                            IF unbounded THEN point_values(cubelist, coord)
                            ELSE bound_values(cubelist, coord))],
                    cubelist, Tail(coord_names))

(***************************************************************************)
(* manipulate_n_realizations                                               *)
(***************************************************************************)

\* cube.extract(iris.Constraint(name=value)): None when no point matches,
\* the cube with its axis when every point does, and else the matching
\* point alone, its coordinate scalar (the points of a dimension
\* coordinate are distinct).
extract(cube, name, value) ==
    LET coord == cube.coords[name]
        matching == {i \in DOMAIN coord.points : coord.points[i] = value}
    IN  IF matching = {} THEN Raise("None")
        ELSE IF matching = DOMAIN coord.points THEN Ok(cube)
        ELSE Ok(slice_at(cube, CHOOSE i \in matching : TRUE))

realization_list_clamped(mpoints, n_realizations) ==
    [k \in 1..n_realizations |->
        mpoints[IF k <= Len(mpoints) THEN k ELSE Len(mpoints)]]

\* Lines 861-862: the realizations of the cube in turn, recycled from the
\* first when the cube has fewer than n_realizations (index k here is
\* index k - 1 there).
realization_list(mpoints, n_realizations) ==
    [k \in 1..n_realizations |-> mpoints[((k - 1) % Len(mpoints)) + 1]]

\* Lines 871-875: the input realization extracted and given its new number.
rebadged(cube, realization, index) ==
    [extract(cube, "realization", realization).value EXCEPT
        !.coords["realization"].points = <<index>>]

manipulate_n_realizations(cube, n_realizations) ==
    IF ~("realization" \in DOMAIN cube.coords
         /\ "realization" \in Range(cube.dim_coords))
    THEN Raise("ValueError")
    ELSE IF Len(cube.coords["realization"].points) = n_realizations
    THEN Ok(cube)
    ELSE IF n_realizations <= 0 THEN Raise("IndexError")
    ELSE
        LET mpoints == cube.coords["realization"].points
            list == realization_list(mpoints, n_realizations)
            new_realization_numbers ==
                [k \in 1..n_realizations |-> list[1] + (k - 1)]
            raw_forecast_realizations_extended ==
                [k \in 1..n_realizations |->
                    rebadged(cube, list[k], new_realization_numbers[k])]
        IN  process(raw_forecast_realizations_extended,
                    FALSE, FALSE, TRUE, TRUE).result

(***************************************************************************)
(* maximum_in_height and height_of_maximum                                 *)
(*                                                                         *)
(* The cubes here also have a name and units, and a payload block is the   *)
(* sequence of the values at the cells of one level.                       *)
(***************************************************************************)

\* cube.extract(iris.Constraint(height=lambda height: lower <= height <=
\* upper)): None when no level lies in the range; the axis is kept unless
\* one level of several is left.
levels_within_open(points, lower, upper) ==
    {i \in DOMAIN points : lower < points[i] /\ points[i] < upper}

levels_within(points, lower, upper) ==
    {i \in DOMAIN points : lower <= points[i] /\ points[i] <= upper}

RECURSIVE ascending(_)
ascending(S) ==
    IF S = {} THEN <<>> ELSE <<SetMin(S)>> \o ascending(S \ {SetMin(S)})

extract_levels(cube, levels) ==
    LET kept == ascending(levels)
        coord == cube.coords["height"]
    IN  IF Len(kept) = 1 /\ Len(coord.points) > 1
        THEN slice_at(cube, kept[1])
        ELSE [cube EXCEPT
                !.coords["height"].points = [k \in DOMAIN kept |-> coord.points[kept[k]]],
                !.data = [k \in DOMAIN kept |-> cube.data[kept[k]]]]

\* cube.collapsed("height", iris.analysis.MAX): at each cell the greatest
\* value over the levels; the height becomes scalar, its bounds the range
\* of the levels and its point their middle, and a cell method is added.
collapsed_max(cube) ==
    LET coord == cube.coords["height"]
        low == SetMin(Range(coord.points))
        top == SetMax(Range(coord.points))
    IN  [cube EXCEPT
            !.coords["height"] =
                [coord EXCEPT !.points = <<(low + top) \div 2>>,
                              !.bounds = <<<<low, top>>>>, !.dims = <<>>],
            !.dim_coords = <<>>,
            !.cell_methods = @ \cup {"maximum: height"},
            !.data = <<[c \in DOMAIN cube.data[1] |->
                        SetMax({cube.data[i][c] : i \in DOMAIN cube.data})]>>]

renamed(cube, new_name) ==
    IF new_name # None THEN [cube EXCEPT !.name = new_name] ELSE cube

\* A height bound is <<>> for None and <<h>> for the height h.
maximum_in_height(cube, lower_height_bound, upper_height_bound, new_name) ==
    LET vertical_levels == cube.coords["height"].points
        lower == IF lower_height_bound = <<>>
                 THEN SetMin(Range(vertical_levels)) ELSE lower_height_bound[1]
        upper == IF upper_height_bound = <<>>
                 THEN SetMax(Range(vertical_levels)) ELSE upper_height_bound[1]
        levels == levels_within(vertical_levels, lower, upper)
    IN  IF levels = {} THEN Raise("ValueError")
        ELSE LET cube_subsetted == extract_levels(cube, levels)
             IN  Ok(renamed(IF Len(cube_subsetted.coords["height"].points) > 1
                            THEN collapsed_max(cube_subsetted)
                            ELSE cube_subsetted,
                            new_name))

\* Lines 811-814: the order in which the levels are scanned.
height_points(n, find_lowest) ==
    IF find_lowest THEN [k \in 1..n |-> k] ELSE [k \in 1..n |-> n + 1 - k]

where_first_match(level_data, max_data, height, data) ==
    [c \in DOMAIN data |->
        IF level_data[c] = max_data[c] /\ data[c] = max_data[c]
        THEN height ELSE data[c]]

\* Lines 817-821: np.where(cube[height].data == max_cube.data, the height
\* of the level, height_of_max.data).
where_match(level_data, max_data, height, data) ==
    [c \in DOMAIN data |->
        IF level_data[c] = max_data[c] THEN height ELSE data[c]]

\* Lines 816-821: the loop over the first k levels of the scan.
RECURSIVE scanned(_, _, _, _)
scanned(cube, max_cube, order, k) ==
    IF k = 0 THEN max_cube.data[1]
    ELSE where_match(cube.data[order[k]], max_cube.data[1],
                     cube.coords["height"].points[order[k]],
                     scanned(cube, max_cube, order, k - 1))

height_of_maximum(cube, max_cube, find_lowest, new_name) ==
    LET n == Len(cube.coords["height"].points)
    IN  IF n = 1 THEN Raise("ValueError")
        ELSE Ok([renamed(max_cube, new_name) EXCEPT
                    !.data = <<scanned(cube, max_cube,
                                       height_points(n, find_lowest), n)>>,
                    !.units = cube.coords["height"].units])

(***************************************************************************)
(* compare_attributes and compare_coords                                   *)
(***************************************************************************)

\* The spelling of the attribute names, for the substring test.
chars ==
    [title |-> <<"t", "i", "t", "l", "e">>,
     source |-> <<"s", "o", "u", "r", "c", "e">>]

\* attribute_filter in k
contains(attribute_filter, k) ==
    \E i \in 0..(Len(chars[k]) - Len(attribute_filter)) :
        SubSeq(chars[k], i + 1, i + Len(attribute_filter)) = attribute_filter

\* An attribute_filter is <<>> for None and <<f>> for the string spelt f.
get_filtered_attributes(cube, attribute_filter) ==
    IF attribute_filter = <<>> THEN cube.attributes
    ELSE [k \in {k \in DOMAIN cube.attributes : contains(attribute_filter[1], k)} |->
            cube.attributes[k]]

common_keys_by_presence(cubes, attribute_filter, keys, i) ==
    {key \in keys :
        \A j \in DOMAIN cubes :
            key \in DOMAIN get_filtered_attributes(cubes[j], attribute_filter)}

\* The keys left in common_keys once the cubes from the i-th on are seen.
RECURSIVE common_keys(_, _, _, _)
common_keys(cubes, attribute_filter, keys, i) ==
    IF i > Len(cubes) THEN keys
    ELSE LET reference_attributes == get_filtered_attributes(cubes[1], attribute_filter)
             cube_attributes == get_filtered_attributes(cubes[i], attribute_filter)
         IN  common_keys(cubes, attribute_filter,
                {key \in DOMAIN cube_attributes :
                    /\ key \in keys
                    /\ cube_attributes[key] = reference_attributes[key]},
                i + 1)

\* The else branch of compare_attributes: one mapping per cube.
unmatching_attributes(cubes, attribute_filter) ==
    LET common == common_keys(cubes, attribute_filter,
                    DOMAIN get_filtered_attributes(cubes[1], attribute_filter), 2)
    IN  [i \in DOMAIN cubes |->
            LET cube_attributes == get_filtered_attributes(cubes[i], attribute_filter)
            IN  [key \in DOMAIN cube_attributes \ common |-> cube_attributes[key]]]

compare_attributes_unguarded(cubes, attribute_filter) ==
    [status |-> "ok", value |-> unmatching_attributes(cubes, attribute_filter),
     warned |-> FALSE]

compare_attributes(cubes, attribute_filter) ==
    IF Len(cubes) = 1
    THEN [status |-> "ok", value |-> <<>>, warned |-> TRUE]
    ELSE [status |-> "ok", value |-> unmatching_attributes(cubes, attribute_filter),
          warned |-> FALSE]

\* Equality of coordinates: of their metadata, points and bounds and not of
\* the axes they lie along. (Coordinates of one name are of one class here.)
same_coord(name, coord, other_name, other) ==
    /\ name = other_name
    /\ coord.var_name = other.var_name
    /\ coord.points = other.points
    /\ coord.bounds = other.bounds

\* coord in cube.coords()
coord_in(name, coord, cube) ==
    \E other \in DOMAIN cube.coords : same_coord(name, coord, other, cube.coords[other])

\* cube.coords(coord): the coordinates of the cube with the metadata of
\* coord, without their axes.
coords_like(cube, name, coord) ==
    IF name \in DOMAIN cube.coords /\ cube.coords[name].var_name = coord.var_name
    THEN <<[cube.coords[name] EXCEPT !.dims = <<>>]>>
    ELSE <<>>

\* The names of the first cube's coordinates left in common_coords once
\* the cubes from the i-th on are seen.
RECURSIVE common_coords(_, _, _)
common_coords(cubes, names, i) ==
    IF i > Len(cubes) THEN names
    ELSE common_coords(cubes,
            {name \in names :
                /\ coord_in(name, cubes[1].coords[name], cubes[i])
                /\ coords_like(cubes[i], name, cubes[1].coords[name]) =
                        coords_like(cubes[1], name, cubes[1].coords[name])},
            i + 1)

\* The index of the name in dim_coords, from 0; <<>> for None.
dim_val(cube, name) ==
    IF \E k \in DOMAIN cube.dim_coords : cube.dim_coords[k] = name
    THEN <<(CHOOSE k \in DOMAIN cube.dim_coords : cube.dim_coords[k] = name) - 1>>
    ELSE <<>>

aux_val(cube, name) ==
    IF dim_val(cube, name) = <<>> /\ Len(cube.coords[name].dims) > 0
    THEN <<cube.coords[name].dims[1]>>
    ELSE <<>>

\* The else branch of compare_coords: one mapping per cube.
unmatching_coords(cubes, ignored_coords) ==
    LET common == common_coords(cubes, DOMAIN cubes[1].coords, 2)
    IN  [i \in DOMAIN cubes |->
            [name \in {n \in DOMAIN cubes[i].coords :
                        /\ ~\E c \in common :
                              same_coord(n, cubes[i].coords[n], c, cubes[1].coords[c])
                        /\ n \notin ignored_coords} |->
                [data_dims |-> dim_val(cubes[i], name),
                 aux_dims |-> aux_val(cubes[i], name),
                 coord |-> cubes[i].coords[name]]]]

compare_coords(cubes, ignored_coords) ==
    IF Len(cubes) = 1
    THEN [status |-> "ok", value |-> <<>>, warned |-> TRUE]
    ELSE [status |-> "ok", value |-> unmatching_coords(cubes, ignored_coords),
          warned |-> FALSE]

(***************************************************************************)
(* collapse_realizations                                                   *)
(*                                                                         *)
(* The payload of these cubes is one block per realization, a block being  *)
(* the sequence of the integers at its cells. A statistic is a record      *)
(*   nan  : TRUE for not-a-number                                          *)
(*   num, den : the fraction num / den                                     *)
(*   root : TRUE when the statistic is the square root of that fraction    *)
(* and the collapsed cube also records whether its payload is masked.      *)
(***************************************************************************)

Value(num, den) == [nan |-> FALSE, num |-> num, den |-> den, root |-> FALSE]

NaN == [nan |-> TRUE, num |-> 0, den |-> 1, root |-> FALSE]

aggregator_dict == {"sum", "mean", "median", "std_dev", "min", "max"}

RECURSIVE SeqSum(_)
SeqSum(xs) == IF xs = <<>> THEN 0 ELSE Head(xs) + SeqSum(Tail(xs))

\* The k-th smallest of the values xs.
Ranked(xs, k) ==
    CHOOSE v \in Range(xs) :
        /\ Cardinality({i \in DOMAIN xs : xs[i] < v}) < k
        /\ Cardinality({i \in DOMAIN xs : xs[i] <= v}) >= k

\* What the iris aggregator gives for the values xs of one cell over the
\* realizations. The standard deviation has ddof = 1: of one value it is
\* undefined, which numpy's masked std reports by masking the result (with
\* the value `underlying` left under the mask) and dask's std, for lazy
\* data, by not-a-number.
aggregate(method, xs, has_lazy_data, underlying) ==
    LET n == Len(xs)
    IN  CASE method = "sum" -> Value(SeqSum(xs), 1)
          [] method = "mean" -> Value(SeqSum(xs), n)
          [] method = "median" ->
                IF n % 2 = 1 THEN Value(Ranked(xs, (n + 1) \div 2), 1)
                ELSE Value(Ranked(xs, n \div 2) + Ranked(xs, n \div 2 + 1), 2)
          [] method = "min" -> Value(SetMin(Range(xs)), 1)
          [] method = "max" -> Value(SetMax(Range(xs)), 1)
          [] method = "std_dev" ->
                IF n = 1 THEN (IF has_lazy_data THEN NaN ELSE underlying)
                ELSE [nan |-> FALSE, root |-> TRUE,
                      num |-> n * SeqSum([i \in DOMAIN xs |-> xs[i] * xs[i]])
                                - SeqSum(xs) * SeqSum(xs),
                      den |-> n * (n - 1)]

\* np.ma.is_masked of the aggregated payload.
is_masked(method, n, has_lazy_data) ==
    method = "std_dev" /\ n = 1 /\ ~has_lazy_data

\* collapsed(cube, "realization", aggregator): cube.collapsed with the
\* cell methods of the input put back. The realization becomes scalar, its
\* bounds the range of the realizations and its point their middle.
collapsed(cube, method, underlying) ==
    LET coord == cube.coords["realization"]
        low == SetMin(Range(coord.points))
        top == SetMax(Range(coord.points))
        n == Len(cube.data)
    IN  [cube EXCEPT
            !.coords["realization"] =
                [coord EXCEPT !.points = <<(low + top) \div 2>>,
                              !.bounds = <<<<low, top>>>>, !.dims = <<>>],
            !.dim_coords = <<>>,
            !.mask = is_masked(method, n, cube.has_lazy_data),
            !.has_lazy_data = FALSE,
            !.data = <<[c \in DOMAIN cube.data[1] |->
                        aggregate(method, [i \in DOMAIN cube.data |-> cube.data[i][c]],
                                  cube.has_lazy_data, underlying)]>>]

remove_coord(cube, name) ==
    [cube EXCEPT !.coords = [n \in DOMAIN cube.coords \ {name} |-> cube.coords[n]]]

undefined_left_masked(cube, returned_cube, method) == returned_cube

\* Lines 88-95: the standard deviation of one realization, when iris has
\* masked it, has its underlying values set to not-a-number.
undefined_set_to_nan(cube, returned_cube, method) ==
    IF /\ method = "std_dev"
       /\ Len(cube.coords["realization"].points) = 1
       /\ returned_cube.mask
    THEN [returned_cube EXCEPT !.data = <<[c \in DOMAIN @[1] |-> NaN]>>]
    ELSE returned_cube

collapse_realizations(cube, method, underlying) ==
    IF method \notin aggregator_dict THEN Raise("ValueError")
    ELSE IF "realization" \notin DOMAIN cube.coords
    THEN Raise("CoordinateNotFoundError")
    ELSE Ok(undefined_set_to_nan(cube,
                remove_coord(collapsed(cube, method, underlying), "realization"),
                method))

(***************************************************************************)
(* clip_cube_data                                                          *)
(*                                                                         *)
(* The payload is one block per point of the leading axis, a block being   *)
(* the sequence of the values of one y-x slice.                            *)
(***************************************************************************)

clip_lower_only(x, a_min, a_max) == IF x < a_min THEN a_min ELSE x

\* np.clip(x, a_min, a_max): minimum(maximum(x, a_min), a_max).
clip(x, a_min, a_max) ==
    LET raised == IF x < a_min THEN a_min ELSE x
    IN  IF raised > a_max THEN a_max ELSE raised

\* cube.slices([y, x]): one cube per point of the leading axis, the cube
\* itself when it has no such axis.
slices(cube) ==
    IF cube.dim_coords = <<>> THEN <<cube>> ELSE slices_over(cube, cube.dim_coords[1])

\* check_cube_coordinates(cube, new_cube): a scalar coordinate of new_cube
\* that is a dimension coordinate of cube becomes a leading axis again;
\* it fails when the dimension coordinates then differ in name.
check_cube_coordinates(cube, new_cube) ==
    LET promoted ==
            IF /\ new_cube.dim_coords = <<>>
               /\ cube.dim_coords # <<>>
               /\ cube.dim_coords[1] \in DOMAIN new_cube.coords
            THEN [new_cube EXCEPT
                    !.coords[cube.dim_coords[1]].dims = <<0>>,
                    !.dim_coords = cube.dim_coords]
            ELSE new_cube
    IN  IF promoted.dim_coords # cube.dim_coords THEN Raise("InvalidCubeError")
        ELSE Ok(promoted)

clip_cube_data(cube, minimum_value, maximum_value) ==
    LET original_attributes == cube.attributes
        original_methods == cube.cell_methods
        cube_slices == slices(cube)
        clipped == [i \in DOMAIN cube_slices |->
                        [cube_slices[i] EXCEPT
                            !.data = <<[c \in DOMAIN @[1] |->
                                        clip(@[1][c], minimum_value, maximum_value)]>>]]
        merged == merge_cube(clipped)
    IN  IF merged.status # "ok" THEN merged
        ELSE check_cube_coordinates(cube,
                [merged.value EXCEPT !.cell_methods = original_methods,
                                     !.attributes = original_attributes])

(***************************************************************************)
(* CopyMetadata (improver/utilities/copy_metadata.py)                      *)
(*                                                                         *)
(* A step gives [status, cube]: the cube as the step left it, also when    *)
(* the step raised.                                                        *)
(***************************************************************************)

\* amend_attributes(cube, new_attributes): the named attributes are
\* overwritten with the new values.
amend_attributes(cube, new_attributes) ==
    [cube EXCEPT !.attributes =
        [k \in DOMAIN @ \cup DOMAIN new_attributes |->
            IF k \in DOMAIN new_attributes THEN new_attributes[k] ELSE @[k]]]

\* cube.add_aux_coord(coord, data_dims): the dimensions named must be
\* dimensions of the cube, of the coordinate's length.
can_add_aux_coord(cube, coord) ==
    \/ coord.dims = <<>>
    \/ cube.dim_coords # <<>> /\ Len(coord.points) = Len(cube.data)

add_aux_coord(cube, name, coord) ==
    [cube EXCEPT !.coords =
        [n \in DOMAIN @ \cup {name} |-> IF n = name THEN coord ELSE @[n]]]

\* Lines 61-62: a coordinate of the name is removed, and with it the
\* cube's dimension coordinate when that is the one.
removed_if_present(cube, name) ==
    IF name \in DOMAIN cube.coords
    THEN [remove_coord(cube, name) EXCEPT
            !.dim_coords = IF @ = <<name>> THEN <<None>> ELSE @]
    ELSE cube

copy_coord_keeping_present(cube, template_cube, name) ==
    IF name \notin DOMAIN template_cube.coords
    THEN [status |-> "CoordinateNotFoundError", cube |-> cube]
    ELSE IF name \in DOMAIN cube.coords THEN [status |-> "ok", cube |-> cube]
    ELSE IF ~can_add_aux_coord(cube, template_cube.coords[name])
    THEN [status |-> "CannotAddError", cube |-> cube]
    ELSE [status |-> "ok",
          cube |-> add_aux_coord(cube, name, template_cube.coords[name])]

\* Lines 60-66 for one name.
copy_coord(cube, template_cube, name) ==
    LET without == removed_if_present(cube, name)
    IN  IF name \notin DOMAIN template_cube.coords
        THEN [status |-> "CoordinateNotFoundError", cube |-> without]
        ELSE IF ~can_add_aux_coord(without, template_cube.coords[name])
        THEN [status |-> "CannotAddError", cube |-> without]
        ELSE [status |-> "ok",
              cube |-> add_aux_coord(without, name, template_cube.coords[name])]

\* Lines 59-66: the names from the j-th on.
RECURSIVE copy_coords(_, _, _, _)
copy_coords(cube, template_cube, aux_coord, j) ==
    IF j > Len(aux_coord) THEN [status |-> "ok", cube |-> cube]
    ELSE LET step == copy_coord(cube, template_cube, aux_coord[j])
         IN  IF step.status # "ok" THEN step
             ELSE copy_coords(step.cube, template_cube, aux_coord, j + 1)

\* Lines 57-66: the body of the loop for one cube.
copy_to_cube(cube, template_cube, attributes, aux_coord) ==
    IF \E k \in Range(attributes) : k \notin DOMAIN template_cube.attributes
    THEN [status |-> "KeyError", cube |-> cube]
    ELSE copy_coords(
            amend_attributes(cube,
                [k \in Range(attributes) |-> template_cube.attributes[k]]),
            template_cube, aux_coord, 1)

\* Lines 56-66: the cubes from the i-th on; the loop ends at the first
\* error, with the cubes as they then are.
RECURSIVE copy_to_cubes(_, _, _, _, _)
copy_to_cubes(cubes_proc, template_cube, attributes, aux_coord, i) ==
    IF i > Len(cubes_proc) THEN [status |-> "ok", cubes |-> cubes_proc]
    ELSE LET step == copy_to_cube(cubes_proc[i], template_cube, attributes, aux_coord)
             cubes == [cubes_proc EXCEPT ![i] = step.cube]
         IN  IF step.status # "ok" THEN [status |-> step.status, cubes |-> cubes]
             ELSE copy_to_cubes(cubes, template_cube, attributes, aux_coord, i + 1)

\* CopyMetadata(attributes, aux_coord).process(*cubes): what it returns or
\* raises, and the caller's cubes after the call.
CopyMetadata_process(cubes, attributes, aux_coord) ==
    IF Len(cubes) < 2
    THEN [result |-> Raise("RuntimeError"), cubes |-> cubes]
    ELSE LET template_cube == cubes[Len(cubes)]
             done == copy_to_cubes(SubSeq(cubes, 1, Len(cubes) - 1), template_cube,
                                   attributes, aux_coord, 1)
         IN  [result |->
                IF done.status # "ok" THEN Raise(done.status)
                ELSE [status |-> "ok",
                      value |-> IF Len(done.cubes) > 1 THEN done.cubes
                                ELSE done.cubes[1]],
              cubes |-> done.cubes \o <<template_cube>>]

(***************************************************************************)
(* enforce_coordinate_ordering and add_coordinate_to_cube                  *)
(*                                                                         *)
(* These cubes have several axes: dim_coords holds, per axis, the name of  *)
(* its dimension coordinate or "None" for an axis without one, a           *)
(* coordinate's dims are the axes it lies along (counted from 0), shape is  *)
(* the length of each axis and values the payload: a function from the     *)
(* index tuples of that shape to the values held there. data records the   *)
(* layout alone: data[k] names the axis of the original payload that is    *)
(* now axis k - 1.                                                         *)
(***************************************************************************)

\* The index tuples of an array of the shape.
Indices(shape) ==
    {idx \in [DOMAIN shape -> 0..SetMax(Range(shape) \cup {1})] :
        \A k \in DOMAIN shape : idx[k] < shape[k]}

\* get_dim_coord_names
get_dim_coord_names(cube) == SelectSeq(cube.dim_coords, LAMBDA n : n # None)

\* find_threshold_coordinate(cube).name(): the coordinate whose var_name
\* is "threshold"; "None" stands for CoordinateNotFoundError.
find_threshold_coordinate(cube) ==
    IF \E n \in DOMAIN cube.coords : cube.coords[n].var_name = "threshold"
    THEN CHOOSE n \in DOMAIN cube.coords : cube.coords[n].var_name = "threshold"
    ELSE None

\* Lines 497-505: the names from the j-th on that are dimension
\* coordinates, "threshold" standing for the threshold coordinate.
RECURSIVE coords_to_reorder(_, _, _)
coords_to_reorder(cube, coord_names, j) ==
    IF j > Len(coord_names) THEN <<>>
    ELSE LET coord == IF coord_names[j] = "threshold"
                      THEN find_threshold_coordinate(cube) ELSE coord_names[j]
         IN  (IF coord # None /\ coord \in Range(get_dim_coord_names(cube))
              THEN <<coord>> ELSE <<>>)
             \o coords_to_reorder(cube, coord_names, j + 1)

\* coord_dims(coord)[0]
coord_dim(cube, name) == cube.coords[name].dims[1]

\* Lines 512-518: the axes of the dimension coordinates, in their order,
\* that new_dims does not hold yet.
RECURSIVE extended(_, _, _, _)
extended(cube, original_coords, new_dims, k) ==
    IF k > Len(original_coords) THEN new_dims
    ELSE LET dim == coord_dim(cube, original_coords[k])
         IN  extended(cube, original_coords,
                      IF dim \in Range(new_dims) THEN new_dims
                      ELSE Append(new_dims, dim),
                      k + 1)

reshuffled_never(new_dims, count, anchor_start) == new_dims

\* Lines 521-524: with the anchor at the end the reordered axes go last.
reshuffled(new_dims, count, anchor_start) ==
    IF anchor_start THEN new_dims
    ELSE SubSeq(new_dims, count + 1, Len(new_dims)) \o SubSeq(new_dims, 1, count)

\* cube.transpose(new_order): axis k of the result is axis new_order[k] of
\* the cube; new_order must be a permutation of the axes.
transpose(cube, new_order) ==
    LET ndim == Len(cube.dim_coords)
    IN  IF Len(new_order) # ndim \/ Range(new_order) # 0..(ndim - 1)
        THEN [status |-> "ValueError", cube |-> cube]
        ELSE [status |-> "ok",
              cube |-> [cube EXCEPT
                !.dim_coords = [k \in 1..ndim |-> cube.dim_coords[new_order[k] + 1]],
                !.data = [k \in 1..ndim |-> cube.data[new_order[k] + 1]],
                !.shape = [k \in 1..ndim |-> cube.shape[new_order[k] + 1]],
                !.values =
                    [idx \in Indices([k \in 1..ndim |-> cube.shape[new_order[k] + 1]]) |->
                        cube.values[[a \in 1..ndim |->
                            idx[CHOOSE k \in 1..ndim : new_order[k] = a - 1]]]],
                !.coords = [n \in DOMAIN cube.coords |->
                    [cube.coords[n] EXCEPT !.dims =
                        [d \in DOMAIN cube.coords[n].dims |->
                            (CHOOSE k \in 1..ndim :
                                new_order[k] = cube.coords[n].dims[d]) - 1]]]]]

is_sorted(dims) == \A k \in 1..(Len(dims) - 1) : dims[k] <= dims[k + 1]

\* enforce_coordinate_ordering: the status and the cube as the call left
\* it (the cube is modified in place).
enforce_coordinate_ordering(cube, coord_names, anchor_start) ==
    LET reorder == coords_to_reorder(cube, coord_names, 1)
        original_coords == get_dim_coord_names(cube)
        first_dims == [k \in DOMAIN reorder |-> coord_dim(cube, reorder[k])]
        new_dims == reshuffled(extended(cube, original_coords, first_dims, 1),
                               Len(reorder), anchor_start)
    IN  IF is_sorted(new_dims) THEN [status |-> "ok", cube |-> cube]
        ELSE transpose(cube, new_dims)

final_dim_order_last(input_dim_count, new_dim_location) ==
    [k \in 1..(input_dim_count + 1) |-> k - 1]

\* np.insert(np.arange(input_dim_count), new_dim_location,
\* values=input_dim_count)
final_dim_order(input_dim_count, new_dim_location) ==
    [k \in 1..(input_dim_count + 1) |->
        IF k - 1 < new_dim_location THEN k - 1
        ELSE IF k - 1 = new_dim_location THEN input_dim_count
        ELSE k - 2]

\* Lines 682-700: the cube built over the broadcast payload. The k-th
\* dimension coordinate is put on axis k - 1 and must have the length of
\* that axis; the auxiliary coordinates keep their axes.
broadcast_cube(cube, new_name, new_coord, copy_metadata) ==
    LET ndim == Len(cube.shape)
        new_dim_coords == Append(get_dim_coord_names(cube), new_name)
        new_shape == Append(cube.shape, Len(new_coord.points))
        coord_of(name) == IF name = new_name THEN new_coord ELSE cube.coords[name]
        aux_coords == DOMAIN cube.coords \ Range(cube.dim_coords)
        output_cube ==
            [name |-> IF copy_metadata THEN cube.name ELSE "unknown",
             units |-> IF copy_metadata THEN cube.units ELSE "unknown",
             attributes |-> IF copy_metadata THEN cube.attributes ELSE <<>>,
             cell_methods |-> IF copy_metadata THEN cube.cell_methods ELSE {},
             var_name |-> IF copy_metadata THEN cube.var_name ELSE None,
             coords |-> [n \in Range(new_dim_coords) \cup aux_coords |->
                IF n \in aux_coords THEN cube.coords[n]
                ELSE [coord_of(n) EXCEPT !.dims =
                        <<(CHOOSE k \in DOMAIN new_dim_coords :
                                new_dim_coords[k] = n) - 1>>]],
             dim_coords |-> [a \in 1..(ndim + 1) |->
                IF a <= Len(new_dim_coords) THEN new_dim_coords[a] ELSE None],
             data |-> Append(cube.data, ndim),
             shape |-> new_shape,
             values |-> [idx \in Indices(new_shape) |->
                            cube.values[SubSeq(idx, 1, ndim)]]]
    IN  IF \E k \in DOMAIN new_dim_coords :
                Len(coord_of(new_dim_coords[k]).points) # new_shape[k]
        THEN [status |-> "ValueError", cube |-> cube]
        ELSE [status |-> "ok", cube |-> output_cube]

\* add_coordinate_to_cube(cube, new_coord, new_dim_location, copy_metadata),
\* new_name being the name of new_coord.
add_coordinate_to_cube(cube, new_name, new_coord, new_dim_location, copy_metadata) ==
    LET input_dim_count == Len(get_dim_coord_names(cube))
    IN  IF new_dim_location > input_dim_count \/ new_dim_location < 0
        THEN Raise("ValueError")
        ELSE LET built == broadcast_cube(cube, new_name, new_coord, copy_metadata)
                 moved == transpose(built.cube,
                                    final_dim_order(input_dim_count, new_dim_location))
             IN  IF built.status # "ok" THEN Raise(built.status)
                 ELSE IF moved.status # "ok" THEN Raise(moved.status)
                 ELSE Ok(moved.cube)

(***************************************************************************)
(* filter_realizations                                                     *)
(***************************************************************************)

\* Lines 637-639: the points of a coordinate, collected into a set.
coord_points(cube, name) == Range(cube.coords[name].points)

\* CubeList.extract(iris.Constraint(name=value)): the extracts of the cubes
\* that hold the value, in the order of the list.
extract_list(cubes, name, value) ==
    LET extracts == [i \in DOMAIN cubes |-> extract(cubes[i], name, value)]
        found == SelectSeq(extracts, LAMBDA e : e.status = "ok")
    IN  [i \in DOMAIN found |-> found[i].value]

time_set_matches_any(realization_cube, times) == TRUE

\* Line 645: the realization is kept when its times are all the times.
time_set_matches(realization_cube, times) ==
    coord_points(realization_cube, "time") = times

\* Lines 640-646: the loop over the realizations, here in ascending order
\* (merge_cube orders the realizations it is given); an error of a merge
\* ends the call.
RECURSIVE filtered_cubes(_, _, _)
filtered_cubes(cubes, times, realizations) ==
    IF realizations = {} THEN [status |-> "ok", cubes |-> <<>>]
    ELSE
        LET realization == SetMin(realizations)
            realization_cube ==
                process(extract_list(cubes, "realization", realization),
                        FALSE, FALSE, FALSE, TRUE).result
        IN  IF realization_cube.status # "ok"
            THEN [status |-> realization_cube.status, cubes |-> <<>>]
            ELSE
                LET rest == filtered_cubes(cubes, times,
                                           realizations \ {realization})
                IN  IF rest.status # "ok" THEN rest
                    ELSE [status |-> "ok",
                          cubes |->
                            (IF time_set_matches(realization_cube.value, times)
                             THEN <<realization_cube.value>> ELSE <<>>)
                            \o rest.cubes]

filter_realizations(cubes) ==
    IF \E i \in DOMAIN cubes :
            {"time", "realization"} \ DOMAIN cubes[i].coords # {}
    THEN Raise("CoordinateNotFoundError")
    ELSE
        LET times == UNION {coord_points(cubes[i], "time") : i \in DOMAIN cubes}
            realizations ==
                UNION {coord_points(cubes[i], "realization") : i \in DOMAIN cubes}
            filtered == filtered_cubes(cubes, times, realizations)
        IN  IF filtered.status # "ok" THEN Raise(filtered.status)
            ELSE process(filtered.cubes, FALSE, FALSE, FALSE, TRUE).result

(***************************************************************************)
(* The inputs                                                              *)
(***************************************************************************)

MaxCubes == 2

MaxPoint == 3

AttrKeys == {"title", "source"}

AttrVals == {"a", "b"}

AttrMaps == UNION {[S -> AttrVals] : S \in SUBSET AttrKeys}

Namings ==
    {[cell_methods |-> {}, var_name |-> None, coord_var_name |-> None],
     [cell_methods |-> {"mean"}, var_name |-> "v", coord_var_name |-> "c"]}

Injective(f) == \A i, j \in DOMAIN f : i # j => f[i] # f[j]

Coord(var_name, points, bounds, dims) ==
    [var_name |-> var_name, points |-> points, bounds |-> bounds, dims |-> dims]

ScalarCube(attributes, naming, name, point, bounds, block) ==
    [attributes |-> attributes, cell_methods |-> naming.cell_methods,
     var_name |-> naming.var_name,
     coords |-> [n \in {name} |->
                    Coord(naming.coord_var_name, <<point>>, bounds, <<>>)],
     dim_coords |-> <<>>, data |-> <<block>>]

NoCall == [op |-> "none"]

\* Lists of one to MaxCubes cubes that differ in one scalar coordinate;
\* a cube's payload block is its position in the list.
InitMerge ==
    /\ \E N \in 1..MaxCubes, name \in {"realization", "time"} :
       \E points \in {f \in [1..N -> 1..MaxPoint] : Injective(f)},
          attributes \in [1..N -> AttrMaps], naming \in [1..N -> Namings] :
            cubes_in = [i \in 1..N |->
                ScalarCube(attributes[i], naming[i], name, points[i], <<>>, i)]
    /\ call = NoCall
    /\ result = Unset
    /\ inner = Unset
    /\ nested = Unset

\* The coordinates a compared cube may have: none, a scalar time, or a
\* realization axis with a height along it and a scalar time.
CompareCoords ==
    {<<>>}
    \cup {[n \in {"time"} |-> Coord(None, <<t>>, <<>>, <<>>)] : t \in 1..2}
    \cup {[n \in {"time", "realization", "height"} |->
            CASE n = "time" -> Coord(None, <<1>>, <<>>, <<>>)
              [] n = "realization" -> Coord(None, <<0, r>>, <<>>, <<0>>)
              [] n = "height" -> Coord(v, <<5, 6>>, <<>>, <<0>>)] :
          r \in 1..2, v \in {None, "h"}}

CompareCube(attributes, coords) ==
    [attributes |-> attributes, cell_methods |-> {}, var_name |-> None,
     coords |-> coords,
     dim_coords |-> IF "realization" \in DOMAIN coords THEN <<"realization">>
                    ELSE <<>>,
     data |-> IF "realization" \in DOMAIN coords THEN <<1, 2>> ELSE <<1>>]

\* Lists of one to MaxCubes cubes to compare.
InitCompare ==
    /\ \E N \in 1..MaxCubes :
       \E attributes \in [1..N -> AttrMaps], coords \in [1..N -> CompareCoords] :
            cubes_in = [i \in 1..N |-> CompareCube(attributes[i], coords[i])]
    /\ call = NoCall
    /\ result = Unset
    /\ inner = Unset
    /\ nested = Unset

AttributeFilters == {<<>>, <<<<"t">>>>, <<<<"o", "u">>>>, <<<<"x">>>>}

IgnoredCoords == {{}, {"time"}, {"height", "realization"}}

AttrMapsSource == UNION {[S -> {"a"}] : S \in SUBSET {"source"}}

\* Three cubes that differ in one scalar coordinate.
InitAssoc ==
    /\ \E name \in {"realization", "time"} :
       \E points \in {f \in [1..3 -> 1..MaxPoint] : Injective(f)},
          attributes \in [1..3 -> AttrMapsSource], naming \in [1..3 -> Namings] :
            cubes_in = [i \in 1..3 |->
                ScalarCube(attributes[i], naming[i], name, points[i], <<>>, i)]
    /\ call = NoCall
    /\ result = Unset
    /\ inner = Unset
    /\ nested = Unset

MaxTimePoints == 3

\* Bound widths in seconds: one and three hours, and two long periods a
\* second apart.
Widths == {3600, 10800, 100000, 100001}

ShortWidths == {3600, 10800}

\* A time-like coordinate of n points, each the upper end of its interval
\* (the lower end when the bounds are written upper-first).
TimePoints(n) == [i \in 1..n |-> 200000 * i]

TimeCoordsOver(widths, orders) ==
    UNION {
        {Coord(None, TimePoints(n), <<>>, IF n = 1 THEN <<>> ELSE <<0>>)}
        \cup
        {Coord(None, TimePoints(n),
               [i \in 1..n |-> IF upper_first
                                THEN <<TimePoints(n)[i], TimePoints(n)[i] - w[i]>>
                                ELSE <<TimePoints(n)[i] - w[i], TimePoints(n)[i]>>],
               IF n = 1 THEN <<>> ELSE <<0>>) :
            w \in [1..n -> widths], upper_first \in orders}
        : n \in 1..MaxTimePoints}

TimeCube(present, time, forecast_period) ==
    [attributes |-> <<>>, cell_methods |-> {}, var_name |-> None,
     coords |-> [n \in present |->
                    IF n = "time" THEN time ELSE forecast_period],
     dim_coords |-> IF "time" \in present /\ time.dims # <<>> THEN <<"time">>
                    ELSE IF "forecast_period" \in present
                            /\ forecast_period.dims # <<>>
                    THEN <<"forecast_period">> ELSE <<>>,
     data |-> IF "time" \in present THEN [i \in DOMAIN time.points |-> i]
              ELSE IF "forecast_period" \in present
              THEN [i \in DOMAIN forecast_period.points |-> i] ELSE <<1>>]

BoundedScalarCube(name, point, width, block) ==
    ScalarCube(<<>>, [cell_methods |-> {}, var_name |-> None,
                      coord_var_name |-> None],
               name, 200000 * point, <<<<200000 * point - width, 200000 * point>>>>,
               block)

\* Either a list of one cube with any of the time and forecast_period
\* coordinates, or a list of scalar cubes that differ in one of them.
InitTime ==
    /\ \/ \E present \in SUBSET {"time", "forecast_period"},
             time \in TimeCoordsOver(Widths, BOOLEAN),
             forecast_period \in TimeCoordsOver(ShortWidths, {FALSE}) :
            /\ "time" \notin present => time = Coord(None, TimePoints(1), <<>>, <<>>)
            /\ "forecast_period" \notin present =>
                    forecast_period = Coord(None, TimePoints(1), <<>>, <<>>)
            /\ ("time" \in present /\ "forecast_period" \in present) =>
                    Len(time.points) = Len(forecast_period.points)
            /\ cubes_in = <<TimeCube(present, time, forecast_period)>>
       \/ \E N \in 2..MaxTimePoints, name \in {"time", "forecast_period"} :
          \E points \in {f \in [1..N -> 1..MaxTimePoints] : Injective(f)},
             w \in [1..N -> Widths] :
            cubes_in = [i \in 1..N |-> BoundedScalarCube(name, points[i], w[i], i)]
    /\ call = NoCall
    /\ result = Unset
    /\ inner = Unset
    /\ nested = Unset

MaxContributors == 2

MaxBoundValue == 2

\* The time coordinate of a contributing cube: a point without bounds, or
\* an interval (written either way round) with the point at its second
\* value.
ContributorTimes ==
    {Coord(None, <<p>>, <<>>, <<>>) : p \in 0..MaxBoundValue}
    \cup {Coord(None, <<b[2]>>, <<b>>, <<>>) :
                b \in (0..MaxBoundValue) \X (0..MaxBoundValue)}

\* The forecast periods of the contributing cubes: all without bounds, all
\* with, or the first alone with bounds.
ContributorPeriod(mode, i) ==
    IF mode = "bounded" \/ (mode = "mixture" /\ i = 1)
    THEN Coord(None, <<i>>, <<<<i - 1, i>>>>, <<>>)
    ELSE Coord(None, <<i>>, <<>>, <<>>)

BoundsCube(time, forecast_period, dim_coords, data) ==
    [attributes |-> <<>>, cell_methods |-> {}, var_name |-> None,
     coords |-> [n \in {"time", "forecast_period"} |->
                    IF n = "time" THEN time ELSE forecast_period],
     dim_coords |-> dim_coords, data |-> data]

\* The cube to alter, whose time coordinate has one point or two, followed
\* by the contributing cubes.
InitBounds ==
    /\ \E N \in 1..MaxContributors, mode \in {"unbounded", "bounded", "mixture"},
          target_points \in {<<0>>, <<0, 1>>} :
       \E times \in [1..N -> ContributorTimes] :
            cubes_in =
                <<BoundsCube(
                    Coord(None, target_points, <<>>,
                          IF Len(target_points) = 1 THEN <<>> ELSE <<0>>),
                    Coord(None, <<0>>, <<>>, <<>>),
                    IF Len(target_points) = 1 THEN <<>> ELSE <<"time">>,
                    target_points)>>
                \o [i \in 1..N |->
                        BoundsCube(times[i], ContributorPeriod(mode, i), <<>>, <<i>>)]
    /\ call = NoCall
    /\ result = Unset
    /\ inner = Unset
    /\ nested = Unset

MaxMembers == 3

MaxRealization == 3

MaxNRealizations == 5

Monotonic(points) ==
    \/ \A i \in 1..(Len(points) - 1) : points[i] < points[i + 1]
    \/ \A i \in 1..(Len(points) - 1) : points[i] > points[i + 1]

\* A cube of one axis, along the named coordinate, whose payload block at
\* each position is that position.
AxisCube(attributes, cell_methods, name, points) ==
    [attributes |-> attributes, cell_methods |-> cell_methods, var_name |-> None,
     coords |-> [n \in {name} |-> Coord(None, points, <<>>, <<0>>)],
     dim_coords |-> <<name>>, data |-> [i \in DOMAIN points |-> i]]

\* A cube with one to MaxMembers realizations in monotonic order, or a cube
\* whose realization is scalar, or a cube without realizations.
InitRealizations ==
    /\ \/ \E m \in 1..MaxMembers, attributes \in AttrMapsSource,
             cell_methods \in {{}, {"mean"}} :
          \E points \in {f \in [1..m -> 0..MaxRealization] : Monotonic(f)} :
            cubes_in = <<AxisCube(attributes, cell_methods, "realization", points)>>
       \/ \E r \in 0..MaxRealization :
            cubes_in = <<ScalarCube(<<>>, [cell_methods |-> {}, var_name |-> None,
                                          coord_var_name |-> None],
                                    "realization", r, <<>>, 1)>>
       \/ \E m \in 1..MaxMembers :
            cubes_in = <<AxisCube(<<>>, {}, "time", [i \in 1..m |-> i])>>
    /\ call = NoCall
    /\ result = Unset
    /\ inner = Unset
    /\ nested = Unset

MaxLevels == 3

MaxValue == 1

NumCells == 1

Cells == 1..NumCells

\* The heights of n levels, 100 m apart, upwards or downwards.
Heights(n, upwards) ==
    [i \in 1..n |-> IF upwards THEN 100 * i ELSE 100 * (n + 1 - i)]

HeightCube(points, data) ==
    [name |-> "upward_air_velocity", units |-> "m s-1",
     attributes |-> <<>>, cell_methods |-> {}, var_name |-> None,
     coords |-> [n \in {"height"} |->
                    [var_name |-> None, points |-> points, bounds |-> <<>>,
                     dims |-> <<0>>, units |-> "m"]],
     dim_coords |-> <<"height">>, data |-> data]

\* A cube such as a maximum over height: no height axis, one block.
MaxCube(block) ==
    [name |-> "upward_air_velocity", units |-> "m s-1",
     attributes |-> <<>>, cell_methods |-> {"maximum: height"}, var_name |-> None,
     coords |-> [n \in {"height"} |->
                    [var_name |-> None, points |-> <<0>>, bounds |-> <<>>,
                     dims |-> <<>>, units |-> "m"]],
     dim_coords |-> <<>>, data |-> <<block>>]

\* A cube of one to MaxLevels levels with values 0..MaxValue, and a second
\* cube to look up in it, with values 0..MaxValue + 1.
InitHeight ==
    /\ \E n \in 1..MaxLevels, upwards \in BOOLEAN :
       \E data \in [1..n -> [Cells -> 0..MaxValue]],
          max_data \in [Cells -> 0..(MaxValue + 1)] :
            cubes_in = <<HeightCube(Heights(n, upwards), data), MaxCube(max_data)>>
    /\ call = NoCall
    /\ result = Unset
    /\ inner = Unset
    /\ nested = Unset

\* A cube of one to MaxLevels levels with values 0..MaxValue.
InitLevels ==
    /\ \E n \in 1..MaxLevels, upwards \in BOOLEAN :
       \E data \in [1..n -> [Cells -> 0..MaxValue]] :
            cubes_in = <<HeightCube(Heights(n, upwards), data)>>
    /\ call = NoCall
    /\ result = Unset
    /\ inner = Unset
    /\ nested = Unset

HeightBounds == {<<>>} \cup {<<h>> : h \in {50, 100, 150, 300, 350}}

(***************************************************************************)
(* The operations                                                          *)
(***************************************************************************)

\* MergeCubes()(cubes_in, ...)
Process(is_cube, check_time_bounds_ranges, slice_over_realization, copy) ==
    /\ call.op = "none"
    /\ is_cube => Len(cubes_in) = 1
    /\ LET r == process(cubes_in, is_cube, check_time_bounds_ranges,
                        slice_over_realization, copy)
       IN  /\ result' = r.result
           /\ cubes_in' = r.cubes
    /\ call' = [op |-> "process", cubes |-> cubes_in, is_cube |-> is_cube,
                check_time_bounds_ranges |-> check_time_bounds_ranges,
                slice_over_realization |-> slice_over_realization,
                copy |-> copy]
    /\ UNCHANGED <<inner, nested>>

\* The associativity scenario: after MergeCubes()(<<A, B, C>>), the same
\* three cubes are merged in two steps, MergeCubes()(<<A, B>>) and then
\* MergeCubes()(<<that result, C>>).
ProcessInner(check_time_bounds_ranges, slice_over_realization, copy) ==
    /\ call.op = "process"
    /\ Len(cubes_in) = 3
    /\ LET r == process(SubSeq(cubes_in, 1, 2), FALSE, check_time_bounds_ranges,
                        slice_over_realization, copy)
       IN  /\ inner' = r.result
           /\ cubes_in' = r.cubes \o <<cubes_in[3]>>
    /\ call' = [op |-> "process_inner", cubes |-> SubSeq(cubes_in, 1, 2),
                is_cube |-> FALSE,
                check_time_bounds_ranges |-> check_time_bounds_ranges,
                slice_over_realization |-> slice_over_realization,
                copy |-> copy]
    /\ UNCHANGED <<result, nested>>

\* With copy = False the merged cube passed in is itself equalised in
\* place; nothing reads it afterwards.
ProcessNested(check_time_bounds_ranges, slice_over_realization, copy) ==
    /\ call.op = "process_inner"
    /\ inner.status = "ok"
    /\ LET r == process(<<inner.value, cubes_in[3]>>, FALSE,
                        check_time_bounds_ranges, slice_over_realization, copy)
       IN  /\ nested' = r.result
           /\ cubes_in' = SubSeq(cubes_in, 1, 2) \o <<r.cubes[2]>>
    /\ call' = [op |-> "process_nested", cubes |-> <<inner.value, cubes_in[3]>>,
                is_cube |-> FALSE,
                check_time_bounds_ranges |-> check_time_bounds_ranges,
                slice_over_realization |-> slice_over_realization,
                copy |-> copy]
    /\ UNCHANGED <<result, inner>>

NextMerge ==
    \E is_cube, check_time_bounds_ranges, slice_over_realization, copy \in BOOLEAN :
        Process(is_cube, check_time_bounds_ranges, slice_over_realization, copy)

SpecMerge == InitMerge /\ [][NextMerge]_vars

SpecTime == InitTime /\ [][NextMerge]_vars

\* expand_bounds(cubes_in[0], cubes_in[1:], coord_names)
ExpandBounds(coord_names) ==
    /\ call.op = "none"
    /\ Len(cubes_in) >= 2
    /\ LET r == expand_bounds(Head(cubes_in), Tail(cubes_in), coord_names)
       IN  /\ result' = IF r.status = "ok" THEN r ELSE Raise(r.status)
           /\ cubes_in' = <<r.value>> \o Tail(cubes_in)
    /\ call' = [op |-> "expand_bounds", cubes |-> cubes_in,
                coord_names |-> coord_names]
    /\ UNCHANGED <<inner, nested>>

NextBounds ==
    \E coord_names \in {<<"time">>, <<"forecast_period">>,
                         <<"time", "forecast_period">>,
                         <<"forecast_period", "time">>} :
        ExpandBounds(coord_names)

SpecBounds == InitBounds /\ [][NextBounds]_vars

\* manipulate_n_realizations(cubes_in[0], n_realizations)
ManipulateNRealizations(n_realizations) ==
    /\ call.op = "none"
    /\ Len(cubes_in) = 1
    /\ result' = manipulate_n_realizations(cubes_in[1], n_realizations)
    /\ call' = [op |-> "manipulate_n_realizations", cubes |-> cubes_in,
                n_realizations |-> n_realizations]
    /\ UNCHANGED <<cubes_in, inner, nested>>

NextRealizations ==
    \E n_realizations \in 0..MaxNRealizations :
        ManipulateNRealizations(n_realizations)

SpecRealizations == InitRealizations /\ [][NextRealizations]_vars

\* maximum_in_height(cubes_in[0], lower_height_bound, upper_height_bound,
\* new_name)
MaximumInHeight(lower_height_bound, upper_height_bound, new_name) ==
    /\ call.op = "none"
    /\ result' = maximum_in_height(cubes_in[1], lower_height_bound,
                                   upper_height_bound, new_name)
    /\ call' = [op |-> "maximum_in_height", cubes |-> cubes_in,
                lower_height_bound |-> lower_height_bound,
                upper_height_bound |-> upper_height_bound, new_name |-> new_name]
    /\ UNCHANGED <<cubes_in, inner, nested>>

\* height_of_maximum(cubes_in[0], cubes_in[1], find_lowest, new_name)
HeightOfMaximum(find_lowest, new_name) ==
    /\ call.op = "none"
    /\ Len(cubes_in) = 2
    /\ result' = height_of_maximum(cubes_in[1], cubes_in[2], find_lowest, new_name)
    /\ call' = [op |-> "height_of_maximum", cubes |-> cubes_in,
                find_lowest |-> find_lowest, new_name |-> new_name]
    /\ UNCHANGED <<cubes_in, inner, nested>>

NextMaximumInHeight ==
    \E lower_height_bound, upper_height_bound \in HeightBounds,
       new_name \in {None, "maximum_vertical_velocity"} :
        MaximumInHeight(lower_height_bound, upper_height_bound, new_name)

SpecMaximumInHeight == InitLevels /\ [][NextMaximumInHeight]_vars

NextHeightOfMaximum ==
    \E find_lowest \in BOOLEAN, new_name \in {None, "height_of_maximum"} :
        HeightOfMaximum(find_lowest, new_name)

SpecHeightOfMaximum == InitHeight /\ [][NextHeightOfMaximum]_vars

NextAssoc ==
    \/ \E check_time_bounds_ranges, slice_over_realization, copy \in BOOLEAN :
            Process(FALSE, check_time_bounds_ranges, slice_over_realization, copy)
    \/ \E slice_over_realization, copy \in BOOLEAN :
            ProcessInner(call.check_time_bounds_ranges, slice_over_realization, copy)
    \/ \E slice_over_realization, copy \in BOOLEAN :
            ProcessNested(call.check_time_bounds_ranges, slice_over_realization, copy)

SpecAssoc == InitAssoc /\ [][NextAssoc]_vars

\* compare_attributes(cubes_in, attribute_filter)
CompareAttributes(attribute_filter) ==
    /\ call.op = "none"
    /\ result' = compare_attributes(cubes_in, attribute_filter)
    /\ call' = [op |-> "compare_attributes", cubes |-> cubes_in,
                attribute_filter |-> attribute_filter]
    /\ UNCHANGED <<cubes_in, inner, nested>>

\* compare_coords(cubes_in, ignored_coords)
CompareCoordinates(ignored_coords) ==
    /\ call.op = "none"
    /\ result' = compare_coords(cubes_in, ignored_coords)
    /\ call' = [op |-> "compare_coords", cubes |-> cubes_in,
                ignored_coords |-> ignored_coords]
    /\ UNCHANGED <<cubes_in, inner, nested>>

NextCompare ==
    \/ \E attribute_filter \in AttributeFilters : CompareAttributes(attribute_filter)
    \/ \E ignored_coords \in IgnoredCoords : CompareCoordinates(ignored_coords)

SpecCompare == InitCompare /\ [][NextCompare]_vars

\* A cube of one to MaxMembers realizations over the cells, with a scalar
\* time, whose data is lazy or not; or a cube without realizations.
MemberCube(points, data, has_lazy_data) ==
    [attributes |-> <<>>, cell_methods |-> {"mean"}, var_name |-> None,
     coords |-> [n \in {"realization", "time"} |->
                    IF n = "realization" THEN Coord(None, points, <<>>, <<0>>)
                    ELSE Coord(None, <<1>>, <<>>, <<>>)],
     dim_coords |-> <<"realization">>, data |-> data,
     mask |-> FALSE, has_lazy_data |-> has_lazy_data]

InitCollapse ==
    /\ \/ \E m \in 1..MaxMembers, has_lazy_data \in BOOLEAN :
          \E data \in [1..m -> [Cells -> 0..MaxValue]] :
            cubes_in = <<MemberCube([i \in 1..m |-> i - 1], data, has_lazy_data)>>
       \/ cubes_in = <<remove_coord(MemberCube(<<0>>, <<[c \in Cells |-> 0]>>, FALSE),
                                    "realization")>>
    /\ call = NoCall
    /\ result = Unset
    /\ inner = Unset
    /\ nested = Unset

\* collapse_realizations(cubes_in[0], method); `underlying` is the value
\* numpy leaves under the mask of an undefined standard deviation.
CollapseRealizations(method, underlying) ==
    /\ call.op = "none"
    /\ result' = collapse_realizations(cubes_in[1], method, underlying)
    /\ call' = [op |-> "collapse_realizations", cubes |-> cubes_in,
                method |-> method, underlying |-> underlying]
    /\ UNCHANGED <<cubes_in, inner, nested>>

NextCollapse ==
    \E method \in aggregator_dict \cup {"mode"}, underlying \in {Value(0, 1), NaN} :
        CollapseRealizations(method, underlying)

SpecCollapse == InitCollapse /\ [][NextCollapse]_vars

\* A cube of one to MaxCubes y-x slices along a realization axis that
\* ascends or descends, or a cube of one slice with a scalar realization;
\* the values are 0..MaxValue + 1.
ClipCube(metadata, points, data) ==
    [attributes |-> metadata.attributes, cell_methods |-> metadata.cell_methods,
     var_name |-> None,
     coords |-> [n \in {"realization"} |->
                    Coord(None, points, <<>>, IF Len(points) = 0 THEN <<>> ELSE <<0>>)],
     dim_coords |-> <<"realization">>, data |-> data]

ClipMetadata ==
    {[attributes |-> <<>>, cell_methods |-> {}],
     [attributes |-> [n \in {"source"} |-> "a"], cell_methods |-> {"mean"}]}

InitClip ==
    /\ \E metadata \in ClipMetadata :
        \/ \E m \in 1..MaxCubes, upwards \in BOOLEAN :
           \E data \in [1..m -> [Cells -> 0..(MaxValue + 1)]] :
              cubes_in = <<ClipCube(metadata,
                             [i \in 1..m |-> IF upwards THEN i ELSE m + 1 - i], data)>>
        \/ \E block \in [Cells -> 0..(MaxValue + 1)] :
              cubes_in = <<[ClipCube(metadata, <<1>>, <<block>>) EXCEPT
                                !.coords["realization"].dims = <<>>,
                                !.dim_coords = <<>>]>>
    /\ call = NoCall
    /\ result = Unset
    /\ inner = Unset
    /\ nested = Unset

\* clip_cube_data(cubes_in[0], minimum_value, maximum_value)
ClipCubeData(minimum_value, maximum_value) ==
    /\ call.op = "none"
    /\ result' = clip_cube_data(cubes_in[1], minimum_value, maximum_value)
    /\ call' = [op |-> "clip_cube_data", cubes |-> cubes_in, again |-> FALSE,
                minimum_value |-> minimum_value, maximum_value |-> maximum_value]
    /\ UNCHANGED <<cubes_in, inner, nested>>

\* clip_cube_data(result, minimum_value, maximum_value): the clipped cube
\* clipped again.
ClipCubeDataAgain ==
    /\ call.op = "clip_cube_data"
    /\ ~call.again
    /\ result.status = "ok"
    /\ nested' = clip_cube_data(result.value, call.minimum_value, call.maximum_value)
    /\ call' = [call EXCEPT !.again = TRUE]
    /\ UNCHANGED <<cubes_in, result, inner>>

NextClip ==
    \/ \E minimum_value, maximum_value \in 0..MaxValue :
            ClipCubeData(minimum_value, maximum_value)
    \/ ClipCubeDataAgain

SpecClip == InitClip /\ [][NextClip]_vars

\* The coordinates of a cube copied to or from: a scalar time, with no
\* height, a scalar height, or a height along a realization axis.
CopyCoords ==
    {[n \in {"time"} |-> Coord(None, <<1>>, <<>>, <<>>)]}
    \cup {[n \in {"time", "height"} |->
            IF n = "time" THEN Coord(None, <<1>>, <<>>, <<>>)
            ELSE Coord(None, <<h>>, <<>>, <<>>)] : h \in 1..2}
    \cup {[n \in {"time", "realization", "height"} |->
            CASE n = "time" -> Coord(None, <<2>>, <<>>, <<>>)
              [] n = "realization" -> Coord(None, <<0, 1>>, <<>>, <<0>>)
              [] n = "height" -> Coord(None, <<5, 6>>, <<>>, <<0>>)]}

CopyAttributes ==
    {<<>>, [n \in {"title"} |-> "a"], [title |-> "b", source |-> "a"]}

\* One to MaxCubes + 1 cubes, the last of them the template.
InitCopy ==
    /\ \E N \in 1..(MaxCubes + 1) :
       \E attributes \in [1..N -> CopyAttributes], coords \in [1..N -> CopyCoords] :
            cubes_in = [i \in 1..N |-> CompareCube(attributes[i], coords[i])]
    /\ call = NoCall
    /\ result = Unset
    /\ inner = Unset
    /\ nested = Unset

\* CopyMetadata(attributes, aux_coord).process(*cubes_in)
CopyMetadataProcess(attributes, aux_coord) ==
    /\ call.op = "none"
    /\ LET r == CopyMetadata_process(cubes_in, attributes, aux_coord)
       IN  /\ result' = r.result
           /\ cubes_in' = r.cubes
    /\ call' = [op |-> "copy_metadata", cubes |-> cubes_in,
                attributes |-> attributes, aux_coord |-> aux_coord]
    /\ UNCHANGED <<inner, nested>>

NextCopy ==
    \E attributes \in {<<>>, <<"title">>, <<"title", "source">>},
       aux_coord \in {<<>>, <<"height">>, <<"height", "time">>, <<"time", "height">>} :
        CopyMetadataProcess(attributes, aux_coord)

SpecCopy == InitCopy /\ [][NextCopy]_vars

MaxAxes == 3

\* The names an axis may have: the threshold coordinate is
\* "air_temperature", and "None" is an axis without dimension coordinate.
AxisNames == {"realization", "time", "air_temperature", None}

\* A cube of the axes named, each of length 2; a time axis also carries
\* the auxiliary coordinate forecast_period, and every cube a scalar
\* height. The value at each index tuple is that tuple.
GridCube(names) ==
    LET n == Len(names)
        axis(name) == (CHOOSE k \in 1..n : names[k] = name) - 1
        held == (Range(names) \ {None})
                \cup (IF "time" \in Range(names) THEN {"forecast_period"} ELSE {})
                \cup {"height"}
    IN  [name |-> "air_temperature", units |-> "K",
         attributes |-> [c \in {"source"} |-> "a"], cell_methods |-> {},
         var_name |-> None,
         coords |-> [c \in held |->
            CASE c = "height" -> Coord(None, <<1>>, <<>>, <<>>)
              [] c = "forecast_period" -> Coord(None, <<1, 2>>, <<>>, <<axis("time")>>)
              [] c = "air_temperature" -> Coord("threshold", <<1, 2>>, <<>>, <<axis(c)>>)
              [] OTHER -> Coord(None, <<1, 2>>, <<>>, <<axis(c)>>)],
         dim_coords |-> names, data |-> [k \in 1..n |-> k - 1],
         shape |-> [k \in 1..n |-> 2],
         values |-> [idx \in Indices([k \in 1..n |-> 2]) |-> idx]]

\* Cubes of one to MaxAxes axes with distinct dimension coordinates.
InitGrid ==
    /\ \E n \in 1..MaxAxes :
       \E names \in [1..n -> AxisNames] :
            /\ \A i, j \in 1..n : (i # j /\ names[i] # None) => names[i] # names[j]
            /\ cubes_in = <<GridCube(names)>>
    /\ call = NoCall
    /\ result = Unset
    /\ inner = Unset
    /\ nested = Unset

RequestedNames == {"realization", "time", "threshold", "air_temperature", "height"}

\* enforce_coordinate_ordering(cubes_in[0], coord_names, anchor_start)
EnforceCoordinateOrdering(coord_names, anchor_start) ==
    /\ call.op = "none"
    /\ LET r == enforce_coordinate_ordering(cubes_in[1], coord_names, anchor_start)
       IN  /\ result' = IF r.status = "ok" THEN Ok(r.cube) ELSE Raise(r.status)
           /\ cubes_in' = <<r.cube>>
    /\ call' = [op |-> "enforce_coordinate_ordering", cubes |-> cubes_in,
                coord_names |-> coord_names, anchor_start |-> anchor_start]
    /\ UNCHANGED <<inner, nested>>

NextOrdering ==
    \E anchor_start \in BOOLEAN,
       coord_names \in UNION {[1..n -> RequestedNames] : n \in 0..2} :
        EnforceCoordinateOrdering(coord_names, anchor_start)

SpecOrdering == InitGrid /\ [][NextOrdering]_vars

\* Cubes of no axis to MaxAxes - 1 axes with distinct dimension coordinates.
InitBroadcast ==
    /\ \E n \in 0..(MaxAxes - 1) :
       \E names \in [1..n -> AxisNames] :
            /\ \A i, j \in 1..n : (i # j /\ names[i] # None) => names[i] # names[j]
            /\ cubes_in = <<GridCube(names)>>
    /\ call = NoCall
    /\ result = Unset
    /\ inner = Unset
    /\ nested = Unset

\* add_coordinate_to_cube(cubes_in[0], new_coord, new_dim_location,
\* copy_metadata) with a percentile coordinate of the size given, a name no
\* cube here has.
AddCoordinateToCube(size, new_dim_location, copy_metadata) ==
    /\ call.op = "none"
    /\ LET new_coord == Coord(None, [i \in 1..size |-> 10 * i], <<>>, <<>>)
       IN  /\ result' = add_coordinate_to_cube(cubes_in[1], "percentile", new_coord,
                                               new_dim_location, copy_metadata)
           /\ call' = [op |-> "add_coordinate_to_cube", cubes |-> cubes_in,
                       new_coord |-> new_coord,
                       new_dim_location |-> new_dim_location,
                       copy_metadata |-> copy_metadata]
    /\ UNCHANGED <<cubes_in, inner, nested>>

NextBroadcast ==
    \E size \in 1..3, new_dim_location \in -1..MaxAxes, copy_metadata \in BOOLEAN :
        AddCoordinateToCube(size, new_dim_location, copy_metadata)

SpecBroadcast == InitBroadcast /\ [][NextBroadcast]_vars

MaxFilterTime == 2

MaxFilterMember == 1

\* The payload of member r at time t.
Block(r, t) == 10 * t + r

\* A cube at one time: its members along an axis when they are two or
\* more, and else its one member as a scalar coordinate.
MemberTimeCube(members, time) ==
    [attributes |-> <<>>, cell_methods |-> {}, var_name |-> None,
     coords |-> [n \in {"realization", "time"} |->
                    IF n = "time" THEN Coord(None, <<time>>, <<>>, <<>>)
                    ELSE Coord(None, members, <<>>,
                               IF Len(members) = 1 THEN <<>> ELSE <<0>>)],
     dim_coords |-> IF Len(members) = 1 THEN <<>> ELSE <<"realization">>,
     data |-> [i \in DOMAIN members |-> Block(members[i], time)]]

MemberLists ==
    {f \in UNION {[1..m -> 0..MaxFilterMember] : m \in 1..(MaxFilterMember + 1)} :
        \A i \in 1..(Len(f) - 1) : f[i] < f[i + 1]}

\* Lists of one to MaxCubes + 1 cubes, each at one time.
InitFilter ==
    /\ \E N \in 1..(MaxCubes + 1) :
        \E members \in [1..N -> MemberLists], time \in [1..N -> 1..MaxFilterTime] :
            cubes_in = [i \in 1..N |-> MemberTimeCube(members[i], time[i])]
    /\ call = NoCall
    /\ result = Unset
    /\ inner = Unset
    /\ nested = Unset

\* filter_realizations(cubes_in)
FilterRealizations ==
    /\ call.op = "none"
    /\ result' = filter_realizations(cubes_in)
    /\ call' = [op |-> "filter_realizations", cubes |-> cubes_in]
    /\ UNCHANGED <<cubes_in, inner, nested>>

NextFilter == FilterRealizations

SpecFilter == InitFilter /\ [][NextFilter]_vars

NeverNotModelled ==
    /\ result.status # "NotModelled"
    /\ inner.status # "NotModelled"
    /\ nested.status # "NotModelled"

(***************************************************************************)
(* The claims                                                              *)
(***************************************************************************)

Called(op) == call.op = op

\* Attribute k is held by every cube of the list with one value.
Agreed(k, cubes) ==
    \A i \in DOMAIN cubes :
        /\ k \in DOMAIN cubes[i].attributes
        /\ cubes[i].attributes[k] = cubes[1].attributes[k]

\* C1, as claimed: for three cubes that merge, merging the merge of the
\* first two with the third gives the result of merging the three.
C1_NestedMergeEqualsFlatMerge ==
    (Called("process_nested") /\ result.status = "ok") => nested = result

\* C1, amended: for three cubes that differ in the realization coordinate
\* and merge, merging the merge of the first two with the third while
\* slicing over realization gives the result of merging the three (same
\* coordinate order, payload and metadata); without slicing over
\* realization that nested merge raises a merge error, since the merge of
\* the first two holds the coordinate as an axis.
C1_NestedMergeWithSlicing ==
    (Called("process_nested") /\ result.status = "ok") =>
        /\ (call.slice_over_realization
            /\ "realization" \in DOMAIN cubes_in[3].coords) => nested = result
        /\ ~call.slice_over_realization => nested.status = "MergeError"

C1_Witness ==
    /\ Called("process_nested")
    /\ result.status = "ok"
    /\ call.slice_over_realization
    /\ nested.status = "ok"
    /\ nested.value.coords["realization"].points = <<1, 2, 3>>
    /\ nested.value.data = <<3, 1, 2>>
    /\ cubes_in[3].cell_methods # nested.value.cell_methods

\* C2, as claimed: the merged cube holds the attributes on which all inputs
\* agree, but never history, title or mosg__grid_version.
C2_SilentAttributesDropped ==
    (Called("process") /\ Len(call.cubes) >= 2 /\ result.status = "ok") =>
        \A k \in AttrKeys \cup silent_attributes :
            k \in DOMAIN result.value.attributes
                <=> (Agreed(k, call.cubes) /\ k \notin silent_attributes)

\* C2, amended: the merged cube holds exactly the attributes on which all
\* inputs agree, with that value, history, title and mosg__grid_version
\* included when the inputs agree on them; an attribute that differs or is
\* missing on an input is absent.
C2_AgreedAttributesKept ==
    (Called("process") /\ Len(call.cubes) >= 2 /\ result.status = "ok") =>
        /\ DOMAIN result.value.attributes \subseteq AttrKeys
        /\ \A k \in AttrKeys \cup silent_attributes :
            /\ k \in DOMAIN result.value.attributes <=> Agreed(k, call.cubes)
            /\ k \in DOMAIN result.value.attributes =>
                    result.value.attributes[k] = call.cubes[1].attributes[k]

C2_Witness ==
    /\ Called("process")
    /\ Len(call.cubes) >= 2
    /\ result.status = "ok"
    /\ "title" \in DOMAIN result.value.attributes
    /\ "source" \notin DOMAIN result.value.attributes
    /\ \E i, j \in DOMAIN call.cubes :
        /\ "source" \in DOMAIN call.cubes[i].attributes
        /\ "source" \in DOMAIN call.cubes[j].attributes
        /\ call.cubes[i].attributes["source"] # call.cubes[j].attributes["source"]

\* C3: a call of process with copy = True on a list of two or more cubes
\* leaves every input cube as it was, whether the call returns or raises.
C3_CopyLeavesInputs ==
    (Called("process") /\ ~call.is_cube /\ Len(call.cubes) >= 2 /\ call.copy) =>
        cubes_in = call.cubes

C3_Witness ==
    /\ Called("process")
    /\ Len(call.cubes) >= 2
    /\ call.copy
    /\ ~call.slice_over_realization
    /\ result.status = "ok"
    /\ cubes_in = call.cubes
    /\ \E i \in DOMAIN cubes_in :
        /\ cubes_in[i].attributes # result.value.attributes
        /\ cubes_in[i].cell_methods # result.value.cell_methods
        /\ cubes_in[i].var_name # None
        /\ \E n \in DOMAIN cubes_in[i].coords : cubes_in[i].coords[n].var_name # None

\* The width of the i-th bound interval of a coordinate.
Width(coord, i) == Abs(coord.bounds[i][2] - coord.bounds[i][1])

\* The coordinate is present with bounds and more than one point.
Checked(cube, name) ==
    /\ name \in DOMAIN cube.coords
    /\ cube.coords[name].bounds # <<>>
    /\ Len(cube.coords[name].points) > 1

\* C4, as claimed: the check of a cube's time bounds fails exactly when its
\* time or forecast_period coordinate is present with bounds and more than
\* one point, and some interval's width differs from the first's.
C4_FailsIffWidthDiffers ==
    (Called("process") /\ ~call.is_cube /\ Len(call.cubes) = 1
     /\ call.check_time_bounds_ranges) =>
        (result.status = "ValueError" <=>
            \E name \in {"time", "forecast_period"} :
                /\ Checked(call.cubes[1], name)
                /\ \E i \in DOMAIN call.cubes[1].coords[name].bounds :
                    Width(call.cubes[1].coords[name], i)
                        # Width(call.cubes[1].coords[name], 1))

\* C4, amended: the check fails exactly when the time or forecast_period
\* coordinate is present with bounds and more than one point, and some
\* interval's width differs from the first's by more than the tolerance of
\* np.isclose, 1e-8 + 1e-5 * the first width; so equal widths
\* [1h, 1h, 1h] pass and [1h, 3h, 1h] fail.  A merged cube that process
\* returns after the check has no such coordinate.
C4_FailsIffWidthBeyondTolerance ==
    /\ (Called("process") /\ ~call.is_cube /\ Len(call.cubes) = 1
        /\ call.check_time_bounds_ranges) =>
        (result.status = "ValueError" <=>
            \E name \in {"time", "forecast_period"} :
                /\ Checked(call.cubes[1], name)
                /\ \E i \in DOMAIN call.cubes[1].coords[name].bounds :
                    Abs(Width(call.cubes[1].coords[name], i)
                            - Width(call.cubes[1].coords[name], 1))
                        > Width(call.cubes[1].coords[name], 1) \div 100000)
    /\ (Called("process") /\ Len(call.cubes) >= 2
        /\ call.check_time_bounds_ranges /\ result.status = "ok") =>
        \A name \in {"time", "forecast_period"} :
            Checked(result.value, name) =>
                \A i \in DOMAIN result.value.coords[name].bounds :
                    Abs(Width(result.value.coords[name], i)
                            - Width(result.value.coords[name], 1))
                        <= Width(result.value.coords[name], 1) \div 100000

C4_Witness ==
    /\ Called("process")
    /\ Len(call.cubes) = 1
    /\ call.check_time_bounds_ranges
    /\ result.status = "ValueError"
    /\ "forecast_period" \in DOMAIN call.cubes[1].coords
    /\ "time" \in DOMAIN call.cubes[1].coords
    /\ Len(call.cubes[1].coords["time"].points) = 3
    /\ call.cubes[1].coords["time"].bounds # <<>>
    /\ call.cubes[1].coords["forecast_period"].bounds # <<>>
    /\ \A i \in 1..3 : Width(call.cubes[1].coords["time"], i) = 3600
    /\ Width(call.cubes[1].coords["forecast_period"], 1) = 3600
    /\ Width(call.cubes[1].coords["forecast_period"], 2) = 10800
    /\ Width(call.cubes[1].coords["forecast_period"], 3) = 3600

Contributors == Tail(call.cubes)

AllBounded(name) == \A i \in DOMAIN Contributors : Contributors[i].coords[name].bounds # <<>>

NoneBounded(name) == \A i \in DOMAIN Contributors : Contributors[i].coords[name].bounds = <<>>

Lowers(name) == {Contributors[i].coords[name].bounds[1][1] : i \in DOMAIN Contributors}

Uppers(name) == {Contributors[i].coords[name].bounds[1][2] : i \in DOMAIN Contributors}

Points(name) == {Contributors[i].coords[name].points[1] : i \in DOMAIN Contributors}

\* C5, as claimed: a successful expand_bounds leaves each named coordinate
\* with the bound <<least lower bound, greatest upper bound>> of the
\* contributing cubes (<<least point, greatest point>> when none has
\* bounds) and its one point at the new upper bound.
C5_BoundsFromLowersAndUppers ==
    (Called("expand_bounds") /\ result.status = "ok") =>
        \A name \in Range(call.coord_names) :
            LET coord == result.value.coords[name]
            IN  /\ AllBounded(name) =>
                    coord.bounds = <<<<SetMin(Lowers(name)), SetMax(Uppers(name))>>>>
                /\ NoneBounded(name) =>
                    coord.bounds = <<<<SetMin(Points(name)), SetMax(Points(name))>>>>
                /\ coord.points = <<coord.bounds[1][2]>>

\* C5, amended: a successful expand_bounds leaves each named coordinate
\* with the bound <<least, greatest>> of all the bound values, lower and
\* upper alike, of the contributing cubes, which is <<least lower bound,
\* greatest upper bound>> when every contributing interval has its lower
\* value first (<<least point, greatest point>> when none has bounds), and
\* its one point at the new upper bound.
C5_BoundsFromAllBoundValues ==
    (Called("expand_bounds") /\ result.status = "ok") =>
        \A name \in Range(call.coord_names) :
            LET coord == result.value.coords[name]
                values == Lowers(name) \cup Uppers(name)
            IN  /\ AllBounded(name) =>
                    /\ coord.bounds = <<<<SetMin(values), SetMax(values)>>>>
                    /\ (\A i \in DOMAIN Contributors :
                            Contributors[i].coords[name].bounds[1][1]
                                <= Contributors[i].coords[name].bounds[1][2])
                        => coord.bounds =
                            <<<<SetMin(Lowers(name)), SetMax(Uppers(name))>>>>
                /\ NoneBounded(name) =>
                    coord.bounds = <<<<SetMin(Points(name)), SetMax(Points(name))>>>>
                /\ coord.points = <<coord.bounds[1][2]>>
                /\ cubes_in[1] = result.value

C5_Witness ==
    /\ Called("expand_bounds")
    /\ result.status = "ok"
    /\ call.coord_names = <<"time", "forecast_period">>
    /\ Len(Contributors) = 2
    /\ Contributors[1].coords["time"].bounds = <<<<0, 1>>>>
    /\ Contributors[2].coords["time"].bounds = <<<<1, 2>>>>
    /\ result.value.coords["time"].bounds = <<<<0, 2>>>>
    /\ result.value.coords["time"].points = <<2>>
    /\ NoneBounded("forecast_period")
    /\ result.value.coords["forecast_period"].bounds = <<<<1, 2>>>>

\* C6: expand_bounds fails when, for a named coordinate, some but not all
\* contributing cubes have bounds, and when the coordinate of the cube to
\* alter has a number of points other than one; a call that succeeds had
\* no such mixture.
C6_FailsOnMixtureOrPointCount ==
    Called("expand_bounds") =>
        /\ (\E name \in Range(call.coord_names) :
                \/ ~AllBounded(name) /\ ~NoneBounded(name)
                \/ Len(call.cubes[1].coords[name].points) # 1)
            => result.status = "ValueError"
        /\ result.status = "ok" =>
            \A name \in Range(call.coord_names) :
                AllBounded(name) \/ NoneBounded(name)

C6_Witness ==
    /\ Called("expand_bounds")
    /\ result.status = "ValueError"
    /\ call.coord_names = <<"time", "forecast_period">>
    /\ Len(call.cubes[1].coords["time"].points) = 1
    /\ AllBounded("time")
    /\ ~AllBounded("forecast_period") /\ ~NoneBounded("forecast_period")
    /\ cubes_in[1].coords["time"].bounds # <<>>

\* The cube has a realization axis.
HasMembers(cube) ==
    "realization" \in DOMAIN cube.coords /\ "realization" \in Range(cube.dim_coords)

Matching(c) ==
    {i \in DOMAIN call.cubes[1].data :
        call.cubes[1].data[i][c] = call.cubes[2].data[1][c]}

LevelHeights == call.cubes[1].coords["height"].points

Lower ==
    IF call.lower_height_bound = <<>> THEN SetMin(Range(LevelHeights))
    ELSE call.lower_height_bound[1]

Upper ==
    IF call.upper_height_bound = <<>> THEN SetMax(Range(LevelHeights))
    ELSE call.upper_height_bound[1]

InRange == {i \in DOMAIN LevelHeights : Lower <= LevelHeights[i] /\ LevelHeights[i] <= Upper}

C10_SingleCubeGivesOneEmptyMapping ==
    ((Called("compare_attributes") \/ Called("compare_coords"))
        /\ Len(call.cubes) = 1) =>
            /\ result.warned
            /\ result.value = << <<>> >>

\* C10: called with one cube, compare_attributes and compare_coords warn
\* and return the empty list, which has no entry for the cube; called with
\* more, they return one mapping per cube and do not warn.
C10_SingleCubeGivesEmptyList ==
    (Called("compare_attributes") \/ Called("compare_coords")) =>
        /\ Len(call.cubes) = 1 =>
            /\ result.warned
            /\ result.value = <<>>
            /\ Len(result.value) # Len(call.cubes)
        /\ Len(call.cubes) > 1 =>
            /\ ~result.warned
            /\ Len(result.value) = Len(call.cubes)

C10_Witness ==
    /\ Called("compare_coords")
    /\ Len(call.cubes) = 1
    /\ DOMAIN call.cubes[1].coords = {"time", "realization", "height"}
    /\ call.cubes[1].attributes # <<>>
    /\ result.warned
    /\ result.value = <<>>

\* TRUE when the key passes the filter of the call.
PassesFilter(k) ==
    call.attribute_filter = <<>> \/ contains(call.attribute_filter[1], k)

\* TRUE when every cube of the call has the key with one value.
SharedByAll(k) ==
    \A j \in DOMAIN call.cubes :
        /\ k \in DOMAIN call.cubes[j].attributes
        /\ call.cubes[j].attributes[k] = call.cubes[1].attributes[k]

\* C11: for two or more cubes compare_attributes returns one mapping per
\* cube, in the order of the cubes; the mapping of cube i holds key k, with
\* the value cube i has for it, exactly when cube i has k, k contains the
\* filter (when one is given) and the cubes do not all have k with one
\* value. So cubes with the same attributes give empty mappings, and a key
\* that some cube lacks is unmatched on every cube that has it.
C11_UnmatchedAttributesPerCube ==
    (Called("compare_attributes") /\ Len(call.cubes) >= 2) =>
        /\ DOMAIN result.value = DOMAIN call.cubes
        /\ \A i \in DOMAIN call.cubes :
            /\ DOMAIN result.value[i] =
                    {k \in DOMAIN call.cubes[i].attributes :
                        PassesFilter(k) /\ ~SharedByAll(k)}
            /\ \A k \in DOMAIN result.value[i] :
                    result.value[i][k] = call.cubes[i].attributes[k]
        /\ (\A i \in DOMAIN call.cubes :
                call.cubes[i].attributes = call.cubes[1].attributes) =>
                    \A i \in DOMAIN call.cubes : result.value[i] = <<>>
        /\ \A k \in AttrKeys :
            (PassesFilter(k)
                /\ \E j \in DOMAIN call.cubes : k \notin DOMAIN call.cubes[j].attributes) =>
                    \A i \in DOMAIN call.cubes :
                        k \in DOMAIN call.cubes[i].attributes =>
                            k \in DOMAIN result.value[i]

C11_Witness ==
    /\ Called("compare_attributes")
    /\ Len(call.cubes) = 2
    /\ call.attribute_filter = <<<<"t">>>>
    /\ call.cubes[1].attributes = [title |-> "a", source |-> "a"]
    /\ call.cubes[2].attributes = [n \in {"title"} |-> "b"]
    /\ result.value = <<[n \in {"title"} |-> "a"], [n \in {"title"} |-> "b"]>>

BlockAt(cube, p) ==
    cube.data[CHOOSE i \in DOMAIN cube.data : cube.coords["realization"].points[i] = p]

\* C13: for minimum <= maximum, clip_cube_data succeeds and gives a cube
\* with the attributes and cell methods of the input, over the same points,
\* whose every value lies in [minimum, maximum] and is the input's value at
\* that point and cell when that was in range already; and clipping the
\* result again with the same limits gives the same cube.
C13_ClipIsIdempotentAndInRange ==
    (Called("clip_cube_data") /\ call.minimum_value <= call.maximum_value) =>
        LET cube == call.cubes[1]
            points == Range(cube.coords["realization"].points)
        IN  /\ result.status = "ok"
            /\ result.value.attributes = cube.attributes
            /\ result.value.cell_methods = cube.cell_methods
            /\ result.value.dim_coords = cube.dim_coords
            /\ Range(result.value.coords["realization"].points) = points
            /\ Len(result.value.data) = Len(cube.data)
            /\ \A p \in points : \A c \in Cells :
                /\ BlockAt(result.value, p)[c] >= call.minimum_value
                /\ BlockAt(result.value, p)[c] <= call.maximum_value
                /\ (/\ BlockAt(cube, p)[c] >= call.minimum_value
                    /\ BlockAt(cube, p)[c] <= call.maximum_value) =>
                        BlockAt(result.value, p)[c] = BlockAt(cube, p)[c]
            /\ call.again => nested = result

C13_Witness ==
    /\ Called("clip_cube_data")
    /\ call.again
    /\ call.minimum_value = 1
    /\ call.maximum_value = 1
    /\ call.cubes[1].coords["realization"].points = <<1, 2>>
    /\ call.cubes[1].data = <<[c \in Cells |-> 0], [c \in Cells |-> 2]>>
    /\ call.cubes[1].cell_methods = {"mean"}
    /\ result.status = "ok"
    /\ result.value.data = <<[c \in Cells |-> 1], [c \in Cells |-> 1]>>
    /\ nested = result

Template == call.cubes[Len(call.cubes)]

Others == 1..(Len(call.cubes) - 1)

\* C14: after a successful call the last cube is the template: every other
\* cube has the template's value for each named attribute and, under each
\* named coordinate, the template's coordinate alone, whatever it had
\* before; its other attributes and coordinates, and the template, are as
\* they were.
C14_TemplateCopiedToOthers ==
    (Called("copy_metadata") /\ result.status = "ok") =>
        /\ Len(cubes_in) = Len(call.cubes)
        /\ cubes_in[Len(cubes_in)] = Template
        /\ \A i \in Others :
            /\ \A k \in Range(call.attributes) :
                /\ k \in DOMAIN cubes_in[i].attributes
                /\ cubes_in[i].attributes[k] = Template.attributes[k]
            /\ \A n \in Range(call.aux_coord) :
                /\ n \in DOMAIN cubes_in[i].coords
                /\ cubes_in[i].coords[n] = Template.coords[n]
            /\ DOMAIN cubes_in[i].attributes =
                    DOMAIN call.cubes[i].attributes \cup Range(call.attributes)
            /\ \A k \in DOMAIN call.cubes[i].attributes \ Range(call.attributes) :
                    cubes_in[i].attributes[k] = call.cubes[i].attributes[k]
            /\ DOMAIN cubes_in[i].coords =
                    DOMAIN call.cubes[i].coords \cup Range(call.aux_coord)
            /\ \A n \in DOMAIN call.cubes[i].coords \ Range(call.aux_coord) :
                    cubes_in[i].coords[n] = call.cubes[i].coords[n]
            /\ cubes_in[i].data = call.cubes[i].data

C14_Witness ==
    /\ Called("copy_metadata")
    /\ result.status = "ok"
    /\ Len(call.cubes) = 3
    /\ call.attributes = <<"title">>
    /\ call.aux_coord = <<"height">>
    /\ Template.attributes = [title |-> "b", source |-> "a"]
    /\ Template.coords["height"].points = <<2>>
    /\ call.cubes[1].attributes = [n \in {"title"} |-> "a"]
    /\ "height" \in DOMAIN call.cubes[1].coords
    /\ call.cubes[1].coords["height"].points = <<1>>
    /\ "height" \notin DOMAIN call.cubes[2].coords
    /\ cubes_in[1].attributes = [n \in {"title"} |-> "b"]
    /\ cubes_in[1].coords["height"].points = <<2>>
    /\ cubes_in[2].coords["height"].points = <<2>>

\* C18: when the call fails because a named attribute or a named
\* coordinate is absent from the template, no cube has been changed: each
\* has the attributes and coordinates it had before the call.
C18_FailureLeavesInputsUntouched ==
    (Called("copy_metadata")
        /\ result.status \in {"KeyError", "CoordinateNotFoundError"}) =>
            cubes_in = call.cubes

\* The requested names that are dimension coordinates of the cube, each
\* once, in the order given.
RECURSIVE Once(_)
Once(names) ==
    IF names = <<>> THEN <<>>
    ELSE LET front == Once(SubSeq(names, 1, Len(names) - 1))
             last == names[Len(names)]
         IN  IF last \in Range(front) THEN front ELSE Append(front, last)

Requested == Once(coords_to_reorder(call.cubes[1], call.coord_names, 1))

\* TRUE when the cube after the call has the requested coordinates on its
\* leading (anchor_start) or trailing axes, in the order given, the other
\* axes in their original relative order, and every coordinate and the
\* payload on the axes they were on.
Reordered(old, new) ==
    LET n == Len(old.dim_coords)
        count == Len(Requested)
    IN  /\ Len(new.dim_coords) = n
        /\ Len(new.data) = n
        /\ Range(new.data) = Range(old.data)
        /\ \A k \in 1..n : new.dim_coords[k] = old.dim_coords[new.data[k] + 1]
        /\ IF call.anchor_start
           THEN SubSeq(new.dim_coords, 1, count) = Requested
           ELSE SubSeq(new.dim_coords, n - count + 1, n) = Requested
        /\ \A j, k \in 1..n :
            (/\ j < k
             /\ new.dim_coords[j] \notin Range(Requested)
             /\ new.dim_coords[k] \notin Range(Requested)) => new.data[j] < new.data[k]
        /\ DOMAIN new.coords = DOMAIN old.coords
        /\ \A c \in DOMAIN old.coords :
            /\ new.coords[c].points = old.coords[c].points
            /\ Len(new.coords[c].dims) = Len(old.coords[c].dims)
            /\ \A d \in DOMAIN old.coords[c].dims :
                    new.data[new.coords[c].dims[d] + 1] = old.coords[c].dims[d]
        /\ \A idx \in DOMAIN new.values :
                new.values[idx] =
                    old.values[[a \in 1..n |-> idx[CHOOSE k \in 1..n : new.data[k] = a - 1]]]
        /\ (new.dim_coords = old.dim_coords) => new = old

AllAxesNamed(cube) == \A k \in DOMAIN cube.dim_coords : cube.dim_coords[k] # None

Without(s, k) == SubSeq(s, 1, k - 1) \o SubSeq(s, k + 1, Len(s))

\* TRUE when the cube returned has one axis more than the input, the new
\* coordinate on axis new_dim_location, the original axes and their
\* coordinates in their relative order around it, and at every index of the
\* new axis the payload of the input.
Broadcast(cube, output) ==
    LET at == call.new_dim_location + 1
        shifted(dims) == [d \in DOMAIN dims |->
                            IF dims[d] >= call.new_dim_location
                            THEN dims[d] + 1 ELSE dims[d]]
    IN  /\ Len(output.shape) = Len(cube.shape) + 1
        /\ output.dim_coords[at] = "percentile"
        /\ output.coords["percentile"] = [call.new_coord EXCEPT !.dims = <<at - 1>>]
        /\ output.shape[at] = Len(call.new_coord.points)
        /\ Without(output.dim_coords, at) = cube.dim_coords
        /\ Without(output.shape, at) = cube.shape
        /\ DOMAIN output.coords = DOMAIN cube.coords \cup {"percentile"}
        /\ \A c \in DOMAIN cube.coords :
                output.coords[c] = [cube.coords[c] EXCEPT !.dims = shifted(@)]
        /\ \A idx \in DOMAIN output.values :
                output.values[idx] = cube.values[Without(idx, at)]
        /\ call.copy_metadata =>
            /\ output.name = cube.name
            /\ output.units = cube.units
            /\ output.attributes = cube.attributes

AllTimes == UNION {coord_points(call.cubes[i], "time") : i \in DOMAIN call.cubes}

AllMembers ==
    UNION {coord_points(call.cubes[i], "realization") : i \in DOMAIN call.cubes}

\* Member r is held by a cube of the call at time t.
PresentAt(r, t) ==
    \E i \in DOMAIN call.cubes :
        /\ r \in coord_points(call.cubes[i], "realization")
        /\ t \in coord_points(call.cubes[i], "time")

\* The members present at every time.
CompleteMembers == {r \in AllMembers : \A t \in AllTimes : PresentAt(r, t)}

\* No member occurs twice at one time.
NoMemberTwice ==
    \A i, j \in DOMAIN call.cubes :
        i # j /\ call.cubes[i].coords["time"] = call.cubes[j].coords["time"]
            => coord_points(call.cubes[i], "realization")
                \cap coord_points(call.cubes[j], "realization") = {}

PointIndex(coord, v) == CHOOSE i \in DOMAIN coord.points : coord.points[i] = v

\* The payload of the cube at member r and time t.
FilteredValue(cube, r, t) ==
    LET rc == cube.coords["realization"]
        tc == cube.coords["time"]
    IN  IF rc.dims = <<>> /\ tc.dims = <<>> THEN cube.data[1]
        ELSE IF rc.dims = <<>> THEN cube.data[PointIndex(tc, t)]
        ELSE IF tc.dims = <<>> THEN cube.data[PointIndex(rc, r)]
        ELSE cube.data[PointIndex(rc, r)][PointIndex(tc, t)]

\* The result holds the members present at every time and no other, each
\* with every time and the payload it had in the input.
HoldsCompleteMembers ==
    /\ result.status = "ok"
    /\ coord_points(result.value, "realization") = CompleteMembers
    /\ coord_points(result.value, "time") = AllTimes
    /\ Len(result.value.coords["realization"].points) = Cardinality(CompleteMembers)
    /\ Len(result.value.coords["time"].points) = Cardinality(AllTimes)
    /\ \A r \in CompleteMembers : \A t \in AllTimes :
            FilteredValue(result.value, r, t) = Block(r, t)

====
